---- MODULE Spec2Model ----
(***************************************************************************)
(* Website-to-knowledge-base ingestion of kufu-backend: the persisted run  *)
(* rows (rag_ingestion_runs), the page and chunk store (rag_pages,         *)
(* rag_chunks), the embedding retry loop, and the ingestion manager that   *)
(* drives one background job per accepted startJob call.                   *)
(*                                                                         *)
(* Every Supabase call of rag/store.ts is one request to the database and  *)
(* is applied to the tables atomically.  A run-table write that has been   *)
(* issued but not yet applied is held in the issuing caller's position (a  *)
(* worker's payload, the job's final payload, the pending cancel write).   *)
(*                                                                         *)
(* Spec      one job from startJob to its end; a page's pipeline is one    *)
(*           step on the page and chunk tables.                            *)
(* SpecStart concurrent startJob calls.                                    *)
(* SpecStore page pipelines request by request: upsertPage is a select and *)
(*           a write, replacePageChunks a delete and an insert.            *)
(* SpecRetry one withRetry call.                                           *)
(* SpecChunk one chunkText call; SpecDiscover one discoverWebsiteUrls      *)
(*           call; SpecNormalize one normalizeUrl call; SpecExtract one    *)
(*           fetchAndExtractPage call; SpecBrowser the process's browser.  *)
(* SpecCancel, SpecPool, SpecResync, SpecSweep, SpecCrash, SpecPages       *)
(*           one or two jobs with cancel calls, the worker pool, resync,   *)
(*           the maintenance sweep, a crash of the process, failed pages.  *)
(***************************************************************************)
EXTENDS Integers, Sequences, FiniteSets, TLC

VARIABLES
    now,        \* the wall clock, new Date(), in staleness units
    runs,       \* table rag_ingestion_runs: a sequence of rows, id = index
    pages,      \* table rag_pages: a set of rows
    calls,      \* the startJob calls: position and arguments of each
    jobs,       \* the manager's in-memory map runId -> job
    chunks,     \* table rag_chunks: a set of rows
    nextId,     \* the next page id gen_random_uuid() hands out
    wk,         \* the worker pool of each job: position of each worker
    cancelWr,   \* runs whose cancel_requested write is issued, not yet applied
    tasks,      \* page pipelines at the grain of single store requests
    crawled,    \* number of page pipelines started so far
    everChunked, \* history: ids of the pages that have had a chunk set stored
    retry,      \* one withRetry call: position, attempt counter, outcomes so far
    ck,         \* one chunkText call: its input, its options and what it returned
    dv,         \* one discoverWebsiteUrls call: its locals and what it returned
    nu,         \* one normalizeUrl call: its arguments and what it returned
    fx,         \* one fetchAndExtractPage call: what was fetched, what it returned
    br          \* the process's browser: browserPromise and the render requests

\* the state of the chunker and of the crawler
ext == <<ck, dv, nu, fx, br>>

\* the state of the job, the store and the retry loop
core == <<now, runs, pages, chunks, nextId, calls, jobs, wk, cancelWr, tasks, crawled, everChunked, retry>>

vars == <<core, ext>>

----------------------------------------------------------------------------
(* Bounds of the model *)

MaxCalls == 3
NumChatbots == 2
MaxUrls == 2
NumWorkers == 2
MaxClock == 3
NumTexts == 2
MaxCrawls == 3

(* Staleness threshold of the maintenance sweep, in clock units. *)
StaleAfter == 1

Chatbots == 1..NumChatbots
Calls == 1..MaxCalls
Urls == 1..MaxUrls
Workers == 1..NumWorkers
\* two workers of the pool, each running one page pipeline at a time
Tasks == {1, 2}
Texts == 1..NumTexts

NoError == <<>>
NoRun == 0
NoTime == 0
StaleError == <<"Marked as failed by scheduler: stale heartbeat">>
Terminal == {"done", "failed", "canceled"}

MaxOf(S) == CHOOSE x \in S : \A y \in S : y <= x

----------------------------------------------------------------------------
(* rag/store.ts: the run table *)

\* insert ... status 'running', counters 0, cancel_requested false
CreateIngestionRun(rs, chatbotId, t) ==
    Append(rs, [chatbot_id |-> chatbotId,
                status |-> "running",
                pages_found |-> 0,
                pages_crawled |-> 0,
                chunks_written |-> 0,
                error |-> NoError,
                cancel_requested |-> FALSE,
                finished_at |-> NoTime,
                updated_at |-> t])

\* variant: the status filter names another status
FindStatusTypo(rs, chatbotId) ==
    LET m == {i \in DOMAIN rs : rs[i].chatbot_id = chatbotId /\ rs[i].status = "done"}
    IN  IF m = {} THEN NoRun ELSE MaxOf(m)

\* select ... eq chatbot_id, eq status 'running', order started_at desc, limit 1
FindRunningIngestionForChatbot(rs, chatbotId) ==
    LET m == {i \in DOMAIN rs : rs[i].chatbot_id = chatbotId /\ rs[i].status = "running"}
    IN  IF m = {} THEN NoRun ELSE MaxOf(m)

\* select ... eq id, maybeSingle
GetIngestionRunById(rs, runId) ==
    IF runId \in DOMAIN rs THEN <<rs[runId]>> ELSE <<>>

\* variant: the status column is left out of the update
UpdateDroppingStatus(rs, runId, payload, t) ==
    IF runId \in DOMAIN rs
    THEN [rs EXCEPT ![runId] =
            [f \in DOMAIN @ |->
                IF f = "updated_at" THEN t
                ELSE IF f \in DOMAIN payload /\ f # "status" THEN payload[f]
                ELSE @[f]]]
    ELSE rs

\* variant: an error absent from the payload is written as null
UpdateReplacingRow(rs, runId, payload, t) ==
    IF runId \in DOMAIN rs
    THEN [rs EXCEPT ![runId] =
            [f \in DOMAIN @ |->
                IF f = "updated_at" THEN t
                ELSE IF f \in DOMAIN payload THEN payload[f]
                ELSE IF f = "error" THEN NoError
                ELSE @[f]]]
    ELSE rs

\* update {...payload, updated_at: now} where id = runId; no condition on status
UpdateIngestionRun(rs, runId, payload, t) ==
    IF runId \in DOMAIN rs
    THEN [rs EXCEPT ![runId] =
            [f \in DOMAIN @ |->
                IF f = "updated_at" THEN t
                ELSE IF f \in DOMAIN payload THEN payload[f]
                ELSE @[f]]]
    ELSE rs

\* variant: the status filter is missing
FailStuckAnyStatus(rs, staleBefore, t) ==
    [i \in DOMAIN rs |->
        IF rs[i].updated_at < staleBefore
        THEN [rs[i] EXCEPT !.status = "failed",
                           !.error = StaleError,
                           !.finished_at = t,
                           !.updated_at = t]
        ELSE rs[i]]

\* variant: the comparison with the cutoff is reversed
FailStuckNewerThanCutoff(rs, staleBefore, t) ==
    [i \in DOMAIN rs |->
        IF rs[i].status = "running" /\ rs[i].updated_at > staleBefore
        THEN [rs[i] EXCEPT !.status = "failed",
                           !.error = StaleError,
                           !.finished_at = t,
                           !.updated_at = t]
        ELSE rs[i]]

\* update status 'failed' ... where status = 'running' and updated_at < staleBefore
FailStuckIngestionRuns(rs, staleBefore, t) ==
    [i \in DOMAIN rs |->
        IF rs[i].status = "running" /\ rs[i].updated_at < staleBefore
        THEN [rs[i] EXCEPT !.status = "failed",
                           !.error = StaleError,
                           !.finished_at = t,
                           !.updated_at = t]
        ELSE rs[i]]

----------------------------------------------------------------------------
(* rag/store.ts: the page and chunk tables *)

NoHash == <<>>

\* sha256 of the text: equal texts give equal hashes, distinct texts distinct ones
ComputeContentHash(text) == <<"sha256", text>>

\* what chunkText returns for a page text, the text being an abstract value:
\* its chunks in index order, each naming the text it is a window of
ChunksPerText == 2
PageChunks(text) == [i \in 1..ChunksPerText |-> [chunk_index |-> i - 1, chunk_text |-> <<text, i - 1>>]]

\* select id, content_hash where chatbot_id = .. and url = ..  (maybeSingle)
SelectPage(ps, chatbotId, url) ==
    {p \in ps : p.chatbot_id = chatbotId /\ p.url = url}

\* variant: the hash comparison is lost
ChangedAlways(existing, hash) == TRUE

\* const changed = existing.content_hash !== hash
PageChanged(existing, hash) == existing.content_hash # hash

\* update rag_pages set content_hash, status, ... where id = existing.id
UpdatePageRow(ps, id, hash, status) ==
    {IF p.id = id THEN [p EXCEPT !.content_hash = hash, !.status = status] ELSE p : p \in ps}

\* insert into rag_pages (...) ; the table has unique (chatbot_id, url)
InsertPageRow(ps, id, chatbotId, url, hash, status) ==
    ps \cup {[id |-> id, chatbot_id |-> chatbotId, url |-> url,
              content_hash |-> hash, status |-> status]}

\* variant: the table has no unique constraint
NoUniqueConstraint(ps, chatbotId, url) == FALSE

\* constraint rag_pages_chatbot_url_unique unique (chatbot_id, url): an insert
\* of a second row for the pair is rejected
UniqueViolation(ps, chatbotId, url) == SelectPage(ps, chatbotId, url) # {}

\* upsert {chatbot_id, url, status, http_status} on conflict (chatbot_id, url):
\* an existing row keeps its id and content_hash
\* variant: a plain insert that does nothing on conflict
MarkFailureInsertOnly(ps, id, chatbotId, url, status) ==
    IF SelectPage(ps, chatbotId, url) = {}
    THEN InsertPageRow(ps, id, chatbotId, url, NoHash, status)
    ELSE ps

MarkPageFailure(ps, id, chatbotId, url, status) ==
    LET old == SelectPage(ps, chatbotId, url)
    IN  IF old = {}
        THEN InsertPageRow(ps, id, chatbotId, url, NoHash, status)
        ELSE (ps \ old) \cup {[p EXCEPT !.status = status] : p \in old}

\* delete from rag_chunks where page_id = ..
DeletePageChunks(cs, pageId) == {c \in cs : c.page_id # pageId}

\* insert into rag_chunks (rows): one statement, all rows or none
InsertPageChunks(cs, chatbotId, pageId, chunkSeq) ==
    cs \cup {[chatbot_id |-> chatbotId, page_id |-> pageId,
              chunk_index |-> chunkSeq[i].chunk_index,
              chunk_text |-> chunkSeq[i].chunk_text] : i \in DOMAIN chunkSeq}

ChunksOfPage(cs, pageId) == {c \in cs : c.page_id = pageId}

\* upsertPage run to completion with no other writer of the row in between:
\* the table after it, the page id and `changed`
UpsertPage(ps, id, chatbotId, url, text, status) ==
    LET hash == ComputeContentHash(text)
        existing == SelectPage(ps, chatbotId, url)
    IN  IF existing # {}
        THEN LET row == CHOOSE p \in existing : TRUE
             IN  [pages |-> UpdatePageRow(ps, row.id, hash, status),
                  pageId |-> row.id,
                  changed |-> PageChanged(row, hash),
                  inserted |-> FALSE]
        ELSE [pages |-> InsertPageRow(ps, id, chatbotId, url, hash, status),
              pageId |-> id,
              changed |-> TRUE,
              inserted |-> TRUE]

\* replacePageChunks run to completion with both statements succeeding
ReplacePageChunks(cs, chatbotId, pageId, chunkSeq) ==
    InsertPageChunks(DeletePageChunks(cs, pageId), chatbotId, pageId, chunkSeq)

\* variant: the chatbot filter is missing
ClearAllChunks(cs, chatbotId) == {}

\* clearChatbotRagData, first request: delete from rag_chunks where chatbot_id = ..
ClearChatbotChunks(cs, chatbotId) == {c \in cs : c.chatbot_id # chatbotId}

\* variant: the second request is missing
ClearNoPages(ps, chatbotId) == ps

\* clearChatbotRagData, second request: delete from rag_pages where chatbot_id = ..
ClearChatbotPages(ps, chatbotId) == {p \in ps : p.chatbot_id # chatbotId}

\* rag_chunks.page_id references rag_pages (id) on delete cascade
CascadeChunks(cs, ps) == {c \in cs : \E p \in ps : p.id = c.page_id}

----------------------------------------------------------------------------
(* rag/ingestionManager.ts: the job state machine *)

IdleWorker == [pc |-> "idle", url |-> 0, payload |-> <<>>]

IdleTask ==
    [pc |-> "idle", chatbotId |-> 0, url |-> 0, text |-> 0, existing |-> {},
     pageId |-> 0, upserted |-> FALSE, changed |-> FALSE, worked |-> FALSE]

\* a pipeline that has ended: its locals are gone, what it returned is kept
EndedTask(t) ==
    [IdleTask EXCEPT !.upserted = t.upserted, !.changed = t.changed, !.worked = t.worked]

NewJob(chatbotId) ==
    [chatbotId |-> chatbotId, status |-> "running", phase |-> "discover",
     pagesFound |-> 0, pagesCrawled |-> 0, chunksWritten |-> 0,
     error |-> NoError, cancelRequested |-> FALSE, cursor |-> 0, final |-> <<>>,
     isResync |-> FALSE,
     \* history, read by no action: the pages finished, in order, with their
     \* outcomes, and whether a cancel arrived after the last URL was taken
     log |-> <<>>, lateCancel |-> FALSE,
     \* history: the next page id when the job was created
     startId |-> nextId]

Init ==
    /\ now = 1
    /\ runs = <<>>
    /\ pages = {}
    /\ chunks = {}
    /\ nextId = 1
    /\ calls = [c \in Calls |-> [pc |-> "idle", chatbotId |-> 0, runId |-> NoRun]]
    /\ jobs = <<>>
    /\ wk = <<>>
    /\ cancelWr = {}
    /\ tasks = [k \in Tasks |-> IdleTask]
    /\ crawled = 0
    /\ retry = [pc |-> "call", attempt |-> 0, lastError |-> <<>>, backoffMs |-> 0,
                hist |-> <<>>]
    /\ everChunked = {}
    /\ ck = [pc |-> "idle"]
    /\ dv = [pc |-> "idle", maxPagesIn |-> 0, maxPages |-> 0, rootUrl |-> <<>>,
             rootHost |-> <<>>, dedup |-> <<>>, todo |-> <<>>, queue |-> <<>>,
             visited |-> {}, result |-> <<>>]
    /\ nu = [pc |-> "idle"]
    /\ fx = [pc |-> "idle"]
    /\ br = [pc |-> "unloaded"]

\* startJob, first await: the running-run check against the run table
StartCheck(c, chatbotId) ==
    /\ calls[c].pc = "idle"
    /\ calls' = [calls EXCEPT ![c] =
                    [pc |-> IF FindRunningIngestionForChatbot(runs, chatbotId) # NoRun
                            THEN "conflict" ELSE "checked",
                     chatbotId |-> chatbotId, runId |-> NoRun]]
    /\ UNCHANGED <<now, runs, pages, chunks, nextId, jobs, wk, cancelWr, tasks, crawled, everChunked, retry, ext>>

\* startJob, second await: the insert; the job is registered and runs detached
StartInsert(c) ==
    /\ calls[c].pc = "checked"
    /\ runs' = CreateIngestionRun(runs, calls[c].chatbotId, now)
    /\ LET id == Len(runs')
       IN  /\ calls' = [calls EXCEPT ![c].pc = "ok", ![c].runId = id]
           /\ jobs' = (id :> NewJob(calls[c].chatbotId)) @@ jobs
           /\ wk' = (id :> [w \in Workers |-> IdleWorker]) @@ wk
    /\ UNCHANGED <<now, pages, chunks, nextId, cancelWr, tasks, crawled, everChunked, retry, ext>>

\* startJob with isResync: true, second await: the job clears before it discovers
StartInsertResync(c) ==
    /\ calls[c].pc = "checked"
    /\ runs' = CreateIngestionRun(runs, calls[c].chatbotId, now)
    /\ LET id == Len(runs')
       IN  /\ calls' = [calls EXCEPT ![c].pc = "ok", ![c].runId = id]
           /\ jobs' = (id :> [NewJob(calls[c].chatbotId) EXCEPT
                                 !.isResync = TRUE, !.phase = "clear"]) @@ jobs
           /\ wk' = (id :> [w \in Workers |-> IdleWorker]) @@ wk
    /\ UNCHANGED <<now, pages, chunks, nextId, cancelWr, tasks, crawled, everChunked, retry, ext>>

Active(r) == r \in DOMAIN jobs /\ jobs[r].status = "running"

\* a resync job, clearChatbotRagData: the chunks of the chatbot are deleted
ClearChunks(r) ==
    /\ Active(r) /\ jobs[r].phase = "clear"
    /\ chunks' = ClearChatbotChunks(chunks, jobs[r].chatbotId)
    /\ jobs' = [jobs EXCEPT ![r].phase = "clear_pages"]
    /\ UNCHANGED <<now, runs, pages, nextId, calls, wk, cancelWr, tasks, crawled, everChunked, retry, ext>>

\* a resync job, clearChatbotRagData throws: the job ends failed, nothing is
\* discovered
ClearFails(r) ==
    /\ Active(r) /\ jobs[r].phase \in {"clear", "clear_pages"}
    /\ jobs' = [jobs EXCEPT ![r].status = "failed", ![r].phase = "finalizing",
                            ![r].error = <<"Failed to clear rag data">>,
                            ![r].final = [status |-> "failed",
                                          error |-> <<"Failed to clear rag data">>,
                                          finished_at |-> now]]
    /\ UNCHANGED <<now, runs, pages, chunks, nextId, calls, wk, cancelWr, tasks, crawled, everChunked, retry, ext>>

\* a resync job, clearChatbotRagData: the pages of the chatbot are deleted,
\* and with each page the chunks that reference it; discovery comes next
ClearPages(r) ==
    /\ Active(r) /\ jobs[r].phase = "clear_pages"
    /\ pages' = ClearChatbotPages(pages, jobs[r].chatbotId)
    /\ chunks' = CascadeChunks(chunks, pages')
    /\ jobs' = [jobs EXCEPT ![r].phase = "discover"]
    /\ UNCHANGED <<now, runs, nextId, calls, wk, cancelWr, tasks, crawled, everChunked, retry, ext>>

\* discovery returns n URLs; pages_found is persisted before the workers start
Discover(r, n) ==
    /\ Active(r) /\ jobs[r].phase = "discover"
    /\ jobs' = [jobs EXCEPT ![r].phase = "crawl", ![r].pagesFound = n]
    /\ runs' = UpdateIngestionRun(runs, r, [pages_found |-> n], now)
    /\ UNCHANGED <<now, pages, chunks, nextId, calls, wk, cancelWr, tasks, crawled, everChunked, retry, ext>>

\* an exception escapes the orchestration: the job ends failed with its message
DiscoverFails(r) ==
    /\ Active(r) /\ jobs[r].phase = "discover"
    /\ jobs' = [jobs EXCEPT ![r].status = "failed", ![r].phase = "finalizing",
                            ![r].error = <<"discovery failed">>,
                            ![r].final = [status |-> "failed",
                                          error |-> <<"discovery failed">>,
                                          finished_at |-> now]]
    /\ UNCHANGED <<now, runs, pages, chunks, nextId, calls, wk, cancelWr, tasks, crawled, everChunked, retry, ext>>

\* variant: the cancellation flag is not looked at
WorkerTakeIgnoringCancel(r, w) ==
    /\ Active(r) /\ jobs[r].phase = "crawl"
    /\ wk[r][w].pc = "idle"
    /\ jobs[r].cursor < jobs[r].pagesFound
    /\ jobs' = [jobs EXCEPT ![r].cursor = @ + 1]
    /\ wk' = [wk EXCEPT ![r][w] = [pc |-> "page", url |-> jobs[r].cursor + 1,
                                   payload |-> <<>>]]
    /\ UNCHANGED <<now, runs, pages, chunks, nextId, calls, cancelWr, tasks, crawled, everChunked, retry, ext>>

\* variant: the URL is read at the cursor before the cursor has moved on
WorkerTakeAtCursor(r, w) ==
    /\ Active(r) /\ jobs[r].phase = "crawl"
    /\ wk[r][w].pc = "idle"
    /\ ~jobs[r].cancelRequested
    /\ jobs[r].cursor < jobs[r].pagesFound
    /\ jobs' = [jobs EXCEPT ![r].cursor = @ + 1]
    /\ wk' = [wk EXCEPT ![r][w] = [pc |-> "page",
                                   url |-> IF jobs[r].cursor = 0 THEN 1 ELSE jobs[r].cursor,
                                   payload |-> <<>>]]
    /\ UNCHANGED <<now, runs, pages, chunks, nextId, calls, cancelWr, tasks, crawled, everChunked, retry, ext>>

\* a worker looks at the cancellation flag, then takes the next URL of the cursor
WorkerTake(r, w) ==
    /\ Active(r) /\ jobs[r].phase = "crawl"
    /\ wk[r][w].pc = "idle"
    /\ ~jobs[r].cancelRequested
    /\ jobs[r].cursor < jobs[r].pagesFound
    /\ jobs' = [jobs EXCEPT ![r].cursor = @ + 1]
    /\ wk' = [wk EXCEPT ![r][w] = [pc |-> "page", url |-> jobs[r].cursor + 1,
                                   payload |-> <<>>]]
    /\ UNCHANGED <<now, runs, pages, chunks, nextId, calls, cancelWr, tasks, crawled, everChunked, retry, ext>>

\* the text the crawler extracts from a URL during a job
PageText(url) == url

PageOutcomes == {"ok", "fetch_failed", "embed_failed"}

PageError(url, outcome) == <<outcome, url>>

\* the store after one page's pipeline: upsertPage, then chunk, embed and
\* replacePageChunks when changed; markPageFailure in the per-page catch
PageEffect(ps, cs, id, chatbotId, url, outcome) ==
    IF outcome = "fetch_failed"
    THEN [pages |-> MarkPageFailure(ps, id, chatbotId, url, "failed"),
          chunks |-> cs, written |-> 0,
          usedId |-> SelectPage(ps, chatbotId, url) = {}]
    ELSE LET up == UpsertPage(ps, id, chatbotId, url, PageText(url), "ok")
         IN  IF outcome = "embed_failed"
             THEN [pages |-> MarkPageFailure(up.pages, id, chatbotId, url, "failed"),
                   chunks |-> cs, written |-> 0, usedId |-> up.inserted]
             ELSE IF up.changed
             THEN [pages |-> up.pages,
                   chunks |-> ReplacePageChunks(cs, chatbotId, up.pageId,
                                                PageChunks(PageText(url))),
                   written |-> Len(PageChunks(PageText(url))),
                   usedId |-> up.inserted]
             ELSE [pages |-> up.pages, chunks |-> cs, written |-> 0,
                   usedId |-> up.inserted]

\* the progress a worker persists after a page: the job's counters as they are
\* in memory when the write is issued, and the job's error after a failed page
ProgressPayload(job, failed) ==
    IF failed
    THEN [pages_crawled |-> job.pagesCrawled, chunks_written |-> job.chunksWritten,
          error |-> job.error]
    ELSE [pages_crawled |-> job.pagesCrawled, chunks_written |-> job.chunksWritten]

\* a worker finishes its page: the store is written, the job's counters move,
\* the first page error is kept, and the progress write is issued
PageDone(r, w, outcome) ==
    /\ r \in DOMAIN jobs /\ jobs[r].phase = "crawl"
    /\ wk[r][w].pc = "page"
    /\ LET url == wk[r][w].url
           eff == PageEffect(pages, chunks, nextId, jobs[r].chatbotId, url, outcome)
           failed == outcome # "ok"
           job == [jobs[r] EXCEPT
                      !.pagesCrawled = @ + 1,
                      !.chunksWritten = @ + eff.written,
                      !.error = IF failed /\ @ = NoError
                                THEN PageError(url, outcome) ELSE @,
                      !.log = Append(@, <<url, outcome>>)]
       IN  /\ pages' = eff.pages
           /\ chunks' = eff.chunks
           /\ nextId' = IF eff.usedId THEN nextId + 1 ELSE nextId
           /\ jobs' = [jobs EXCEPT ![r] = job]
           /\ wk' = [wk EXCEPT ![r][w] = [pc |-> "write", url |-> url,
                                          payload |-> ProgressPayload(job, failed)]]
    /\ UNCHANGED <<now, runs, calls, cancelWr, tasks, crawled, everChunked, retry, ext>>

\* the database applies a worker's progress write; the worker is free again
ApplyProgress(r, w) ==
    /\ r \in DOMAIN jobs
    /\ wk[r][w].pc = "write"
    /\ runs' = UpdateIngestionRun(runs, r, wk[r][w].payload, now)
    /\ wk' = [wk EXCEPT ![r][w] = IdleWorker]
    /\ UNCHANGED <<now, pages, chunks, nextId, calls, jobs, cancelWr, tasks, crawled, everChunked, retry, ext>>

\* variant: the pool counts as drained when no URL is left to take
DrainedWhenCursorEnds(r) == jobs[r].cursor >= jobs[r].pagesFound \/ jobs[r].cancelRequested

\* every worker of the pool has returned
Drained(r) == \A w \in Workers : wk[r][w].pc = "idle"

\* all workers have returned: canceled if the flag is set, done otherwise
Finalize(r) ==
    /\ Active(r) /\ jobs[r].phase = "crawl"
    /\ Drained(r)
    /\ jobs[r].cancelRequested \/ jobs[r].cursor >= jobs[r].pagesFound
    /\ LET st == IF jobs[r].cancelRequested THEN "canceled" ELSE "done"
       IN  jobs' = [jobs EXCEPT ![r].status = st, ![r].phase = "finalizing",
                                ![r].final = [status |-> st, finished_at |-> now]]
    /\ UNCHANGED <<now, runs, pages, chunks, nextId, calls, wk, cancelWr, tasks, crawled, everChunked, retry, ext>>

\* the database applies the job's terminal write
ApplyFinal(r) ==
    /\ r \in DOMAIN jobs /\ jobs[r].phase = "finalizing"
    /\ runs' = UpdateIngestionRun(runs, r, jobs[r].final, now)
    /\ jobs' = [jobs EXCEPT ![r].phase = "finished", ![r].final = <<>>]
    /\ UNCHANGED <<now, pages, chunks, nextId, calls, wk, cancelWr, tasks, crawled, everChunked, retry, ext>>

\* cancel(runId): a no-op unless the job is running; sets the flag the workers
\* read and issues the cancel_requested write
Cancel(r) ==
    /\ r \in DOMAIN runs
    /\ IF Active(r)
       THEN /\ jobs' = [jobs EXCEPT
                            ![r].cancelRequested = TRUE,
                            ![r].lateCancel = @ \/ (/\ ~jobs[r].cancelRequested
                                                    /\ jobs[r].phase = "crawl"
                                                    /\ jobs[r].cursor >= jobs[r].pagesFound
                                                    /\ ~Drained(r))]
            /\ cancelWr' = cancelWr \cup {r}
       ELSE UNCHANGED <<jobs, cancelWr>>
    /\ UNCHANGED <<now, runs, pages, chunks, nextId, calls, wk, tasks, crawled, everChunked, retry, ext>>

\* a cancel call made while no cancel_requested write of the run is pending
CancelOnce(r) == r \notin cancelWr /\ Cancel(r)

\* the database applies the cancel_requested write
ApplyCancel(r) ==
    /\ r \in cancelWr
    /\ runs' = UpdateIngestionRun(runs, r, [cancel_requested |-> TRUE], now)
    /\ cancelWr' = cancelWr \ {r}
    /\ UNCHANGED <<now, pages, chunks, nextId, calls, jobs, wk, tasks, crawled, everChunked, retry, ext>>

\* time passes
Tick ==
    /\ now < MaxClock
    /\ now' = now + 1
    /\ UNCHANGED <<runs, pages, chunks, nextId, calls, jobs, wk, cancelWr, tasks, crawled, everChunked, retry, ext>>

\* the maintenance scheduler's sweep: failStuckIngestionRuns(now - threshold)
Sweep ==
    /\ runs' = FailStuckIngestionRuns(runs, now - StaleAfter, now)
    /\ UNCHANGED <<now, pages, chunks, nextId, calls, jobs, wk, cancelWr, tasks, crawled, everChunked, retry, ext>>

\* the process dies and is started again: the job map, the worker pools, the
\* requests not yet sent and the startJob calls in progress are gone; the
\* tables stay
Crash ==
    /\ jobs # <<>> \/ \E c \in Calls : calls[c].pc = "checked"
    /\ jobs' = <<>>
    /\ wk' = <<>>
    /\ cancelWr' = {}
    /\ calls' = [c \in Calls |->
                    IF calls[c].pc = "checked" THEN [calls[c] EXCEPT !.pc = "lost"]
                    ELSE calls[c]]
    /\ UNCHANGED <<now, runs, pages, chunks, nextId, tasks, crawled, everChunked, retry, ext>>

\* a run whose owning process is gone: no job of the manager writes to it
Orphaned(r) == r \in DOMAIN runs /\ r \notin DOMAIN jobs

\* getStatus(runId): the in-memory job when the manager holds one, else the row
GetStatus(r) ==
    IF r \in DOMAIN jobs
    THEN [status |-> jobs[r].status, pagesFound |-> jobs[r].pagesFound,
          pagesCrawled |-> jobs[r].pagesCrawled,
          chunksWritten |-> jobs[r].chunksWritten, error |-> jobs[r].error,
          cancelRequested |-> jobs[r].cancelRequested]
    ELSE [status |-> runs[r].status, pagesFound |-> runs[r].pages_found,
          pagesCrawled |-> runs[r].pages_crawled,
          chunksWritten |-> runs[r].chunks_written, error |-> runs[r].error,
          cancelRequested |-> runs[r].cancel_requested]

----------------------------------------------------------------------------
(* One page's pipeline, request by request: upsertPage (select, then update  *)
(* or insert), embedding, replacePageChunks (delete, then insert), and the  *)
(* per-page catch that calls markPageFailure.                               *)

TaskOthers == <<now, runs, calls, jobs, wk, cancelWr, retry, ext>>

\* a worker starts a page; upsertPage reads the existing row
UpsertSelect(k, b, u, text) ==
    /\ tasks[k].pc = "idle" /\ crawled < MaxCrawls
    /\ crawled' = crawled + 1
    /\ tasks' = [tasks EXCEPT ![k] =
                    [IdleTask EXCEPT
                        !.pc = "upsert", !.chatbotId = b, !.url = u, !.text = text,
                        !.existing = SelectPage(pages, b, u)]]
    /\ UNCHANGED <<pages, chunks, nextId, everChunked>>
    /\ UNCHANGED TaskOthers

\* the per-page catch: the page is marked failed and the pipeline ends
TaskFails(k) ==
    /\ pages' = MarkPageFailure(pages, nextId, tasks[k].chatbotId, tasks[k].url, "failed")
    /\ nextId' = IF SelectPage(pages, tasks[k].chatbotId, tasks[k].url) = {}
                 THEN nextId + 1 ELSE nextId
    /\ tasks' = [tasks EXCEPT ![k] = EndedTask(@)]

\* a worker's fetch of a page fails: markPageFailure is the pipeline's only
\* store call
FetchFails(k, b, u) ==
    /\ tasks[k].pc = "idle" /\ crawled < MaxCrawls
    /\ crawled' = crawled + 1
    /\ pages' = MarkPageFailure(pages, nextId, b, u, "failed")
    /\ nextId' = IF SelectPage(pages, b, u) = {} THEN nextId + 1 ELSE nextId
    /\ tasks' = [tasks EXCEPT ![k] = IdleTask]
    /\ UNCHANGED <<chunks, everChunked>>
    /\ UNCHANGED TaskOthers

\* upsertPage writes: update of the row read, or insert of a new one, which
\* the unique (chatbot_id, url) constraint rejects when a row has appeared
UpsertWrite(k) ==
    /\ tasks[k].pc = "upsert"
    /\ LET t == tasks[k]
           hash == ComputeContentHash(t.text)
       IN  IF t.existing # {}
           THEN LET row == CHOOSE p \in t.existing : TRUE
                    changed == PageChanged(row, hash)
                IN  /\ pages' = UpdatePageRow(pages, row.id, hash, "ok")
                    /\ nextId' = nextId
                    /\ tasks' = [tasks EXCEPT ![k] =
                                    LET t2 == [@ EXCEPT !.pageId = row.id, !.upserted = TRUE,
                                                        !.changed = changed, !.pc = "embed"]
                                    IN  IF changed THEN t2 ELSE EndedTask(t2)]
           ELSE IF UniqueViolation(pages, t.chatbotId, t.url)
           THEN TaskFails(k)
           ELSE /\ pages' = InsertPageRow(pages, nextId, t.chatbotId, t.url, hash, "ok")
                /\ nextId' = nextId + 1
                /\ tasks' = [tasks EXCEPT ![k].pageId = nextId,
                                          ![k].upserted = TRUE,
                                          ![k].changed = TRUE,
                                          ![k].pc = "embed"]
    /\ UNCHANGED <<chunks, crawled, everChunked>>
    /\ UNCHANGED TaskOthers

\* chunkText and embedTexts for a changed page; the embedding may fail
Embed(k, ok) ==
    /\ tasks[k].pc = "embed"
    /\ IF ok
       THEN /\ tasks' = [tasks EXCEPT ![k].pc = "delete", ![k].worked = TRUE]
            /\ UNCHANGED <<pages, nextId>>
       ELSE /\ pages' = MarkPageFailure(pages, nextId, tasks[k].chatbotId, tasks[k].url, "failed")
            /\ nextId' = IF SelectPage(pages, tasks[k].chatbotId, tasks[k].url) = {}
                         THEN nextId + 1 ELSE nextId
            /\ tasks' = [tasks EXCEPT ![k] = EndedTask([@ EXCEPT !.worked = TRUE])]
    /\ UNCHANGED <<chunks, crawled, everChunked>>
    /\ UNCHANGED TaskOthers

\* replacePageChunks, first request: delete the page's chunks
ReplaceDelete(k) ==
    /\ tasks[k].pc = "delete"
    /\ chunks' = DeletePageChunks(chunks, tasks[k].pageId)
    /\ tasks' = [tasks EXCEPT ![k].pc = "insert"]
    /\ UNCHANGED <<pages, nextId, crawled, everChunked>>
    /\ UNCHANGED TaskOthers

\* replacePageChunks, second request: insert the new rows; the insert may fail
ReplaceInsert(k, ok) ==
    /\ tasks[k].pc = "insert"
    /\ IF ok /\ \E p \in pages : p.id = tasks[k].pageId
       THEN /\ chunks' = InsertPageChunks(chunks, tasks[k].chatbotId, tasks[k].pageId,
                                          PageChunks(tasks[k].text))
            /\ everChunked' = everChunked \cup {tasks[k].pageId}
            /\ tasks' = [tasks EXCEPT ![k] = EndedTask(@)]
            /\ UNCHANGED <<pages, nextId>>
       ELSE /\ TaskFails(k)
            /\ UNCHANGED <<chunks, everChunked>>
    /\ UNCHANGED crawled
    /\ UNCHANGED TaskOthers

(* Page pipelines of concurrent workers against the page and chunk tables. *)
NextStore ==
    \/ \E k \in Tasks, b \in Chatbots, t \in Texts : UpsertSelect(k, b, 1, t)
    \/ \E k \in Tasks : UpsertWrite(k)
    \/ \E k \in Tasks, ok \in BOOLEAN : Embed(k, ok)
    \/ \E k \in Tasks : ReplaceDelete(k)
    \/ \E k \in Tasks, ok \in BOOLEAN : ReplaceInsert(k, ok)

SpecStore == Init /\ [][NextStore]_vars

(* Page pipelines of concurrent workers for pages of one text, some of    *)
(* which fail at the fetch.                                                *)
NextPages ==
    \/ \E k \in Tasks, b \in Chatbots : UpsertSelect(k, b, 1, 1)
    \/ \E k \in Tasks, b \in Chatbots : FetchFails(k, b, 1)
    \/ \E k \in Tasks : UpsertWrite(k)
    \/ \E k \in Tasks, ok \in BOOLEAN : Embed(k, ok)
    \/ \E k \in Tasks : ReplaceDelete(k)
    \/ \E k \in Tasks, ok \in BOOLEAN : ReplaceInsert(k, ok)

SpecPages == Init /\ [][NextPages]_vars

----------------------------------------------------------------------------
(* rag/embeddings.ts: withRetry around one provider call *)

MAX_RETRIES == 5
BackoffBaseMs == 400

Pow2(n) == IF n <= 0 THEN 1 ELSE 2^n

\* what one attempt of the provider call can end with: a response, or an error
\* object with its status (0 when it has none) and code ("" when it has none)
Success == [status |-> 200, code |-> ""]
ProviderErrors ==
    {[status |-> 429, code |-> ""], [status |-> 500, code |-> ""],
     [status |-> 400, code |-> ""], [status |-> 0, code |-> "ETIMEDOUT"],
     [status |-> 0, code |-> "ECONNRESET"], [status |-> 0, code |-> "ENOTFOUND"]}

\* variant: 429 is not retried
ShouldRetryServerErrorsOnly(error) ==
    \/ error.status >= 500
    \/ error.code = "ETIMEDOUT" \/ error.code = "ECONNRESET"

\* variant: every error is retried
ShouldRetryAnyError(error) == TRUE

\* status === 429 || status >= 500, or code ETIMEDOUT / ECONNRESET
ShouldRetry(error) ==
    \/ error.status = 429 \/ error.status >= 500
    \/ error.code = "ETIMEDOUT" \/ error.code = "ECONNRESET"

RetryOthers ==
    <<now, runs, pages, chunks, nextId, calls, jobs, wk, cancelWr, tasks, crawled,
      everChunked, ext>>

\* one pass of the while loop: the operation is awaited; it returns, or the
\* catch counts the attempt and throws or goes to sleep
RetryAttempt(outcome) ==
    /\ retry.pc = "call"
    /\ retry.attempt < MAX_RETRIES
    /\ IF outcome = Success
       THEN retry' = [retry EXCEPT !.pc = "returned", !.hist = Append(@, outcome)]
       ELSE LET attempt == retry.attempt + 1
            IN  retry' = [retry EXCEPT
                             !.hist = Append(@, outcome),
                             !.lastError = <<outcome>>,
                             !.attempt = attempt,
                             !.pc = IF attempt >= MAX_RETRIES \/ ~ShouldRetry(outcome)
                                    THEN "thrown" ELSE "sleep",
                             !.backoffMs = IF attempt >= MAX_RETRIES \/ ~ShouldRetry(outcome)
                                           THEN @ ELSE BackoffBaseMs * Pow2(attempt - 1)]
    /\ UNCHANGED RetryOthers

\* the backoff sleep ends and the loop condition is evaluated again
RetryWake ==
    /\ retry.pc = "sleep"
    /\ retry' = [retry EXCEPT !.pc = "call"]
    /\ UNCHANGED RetryOthers

(* One embedding call under withRetry, for every sequence of attempt outcomes. *)
NextRetry ==
    \/ \E o \in ProviderErrors \cup {Success} : RetryAttempt(o)
    \/ RetryWake

SpecRetry == Init /\ [][NextRetry]_vars

----------------------------------------------------------------------------
(* rag/chunker.ts: chunkText.  A text is a sequence of characters. *)

MIN_CHUNK_SIZE == 300
MAX_CHUNK_SIZE == 2000
DEFAULT_CHUNK_SIZE == 1050
DEFAULT_OVERLAP == 150

Min2(a, b) == IF a <= b THEN a ELSE b
Max2(a, b) == IF a >= b THEN a ELSE b

\* the characters \s matches and trim() strips, among those the texts use
IsSpace(c) == c \in {" ", "\n", "\t"}

\* text.replace(/\s+/g, ' '): every maximal run of whitespace becomes one space
RECURSIVE CollapseSpaces(_)
CollapseSpaces(s) ==
    IF Len(s) <= 1
    THEN IF s # <<>> /\ IsSpace(s[1]) THEN <<" ">> ELSE s
    ELSE LET h == Len(s) \div 2
             l == CollapseSpaces(SubSeq(s, 1, h))
             r == CollapseSpaces(SubSeq(s, h + 1, Len(s)))
         IN  IF l[Len(l)] = " " /\ r[1] = " " THEN l \o Tail(r) ELSE l \o r

RECURSIVE TrimStart(_)
TrimStart(s) == IF s # <<>> /\ IsSpace(Head(s)) THEN TrimStart(Tail(s)) ELSE s

RECURSIVE TrimEnd(_)
TrimEnd(s) ==
    IF s # <<>> /\ IsSpace(s[Len(s)]) THEN TrimEnd(SubSeq(s, 1, Len(s) - 1)) ELSE s

\* String.prototype.trim
Trim(s) == TrimEnd(TrimStart(s))

\* String.prototype.slice(start, end) for 0 <= start <= end
Slice(s, start, end) == SubSeq(s, start + 1, Min2(end, Len(s)))

NormalizeContent(text) == Trim(CollapseSpaces(text))

\* Math.max(1, Math.ceil(text.length / 4))
EstimateTokens(text) == Max2(1, (Len(text) + 3) \div 4)

\* 'No textual content extracted from this page.'
Placeholder ==
    <<"N", "o", " ", "t", "e", "x", "t", "u", "a", "l", " ",
      "c", "o", "n", "t", "e", "n", "t", " ",
      "e", "x", "t", "r", "a", "c", "t", "e", "d", " ",
      "f", "r", "o", "m", " ", "t", "h", "i", "s", " ",
      "p", "a", "g", "e", ".">>

\* options.chunkSize ?? 1050, clamped to 300..2000
ChunkSizeOf(options) ==
    Max2(MIN_CHUNK_SIZE,
         Min2(IF "chunkSize" \in DOMAIN options THEN options.chunkSize
              ELSE DEFAULT_CHUNK_SIZE, MAX_CHUNK_SIZE))

\* options.overlap ?? 150, clamped to 0..floor(chunkSize / 2)
OverlapOf(options) ==
    Max2(0, Min2(IF "overlap" \in DOMAIN options THEN options.overlap
                 ELSE DEFAULT_OVERLAP, ChunkSizeOf(options) \div 2))

MakeChunk(index, text) ==
    [chunk_index |-> index, chunk_text |-> text, token_estimate |-> EstimateTokens(text)]

\* variant: the loop goes on after the window that reaches the end of the text
RECURSIVE ChunkLoopNoBreak(_, _, _, _, _, _)
ChunkLoopNoBreak(text, chunkSize, step, start, index, acc) ==
    IF start >= Len(text) THEN acc
    ELSE LET rawChunk == Trim(Slice(text, start, start + chunkSize))
         IN  IF rawChunk = <<>>
             THEN ChunkLoopNoBreak(text, chunkSize, step, start + step, index, acc)
             ELSE ChunkLoopNoBreak(text, chunkSize, step, start + step, index + 1,
                                   Append(acc, MakeChunk(index, rawChunk)))

\* the for loop of chunkText, from `start` on
RECURSIVE ChunkLoop(_, _, _, _, _, _)
ChunkLoop(text, chunkSize, step, start, index, acc) ==
    IF start >= Len(text) THEN acc
    ELSE LET rawChunk == Trim(Slice(text, start, start + chunkSize))
         IN  IF rawChunk = <<>>
             THEN ChunkLoop(text, chunkSize, step, start + step, index, acc)
             ELSE IF start + chunkSize >= Len(text)
             THEN Append(acc, MakeChunk(index, rawChunk))
             ELSE ChunkLoop(text, chunkSize, step, start + step, index + 1,
                            Append(acc, MakeChunk(index, rawChunk)))

\* variant: the empty-text branch is missing
ChunkTextNoPlaceholder(input, options) ==
    LET chunkSize == ChunkSizeOf(options)
        overlap == OverlapOf(options)
        text == NormalizeContent(input)
        step == Max2(1, chunkSize - overlap)
    IN  ChunkLoop(text, chunkSize, step, 0, 0, <<>>)

ChunkText(input, options) ==
    LET chunkSize == ChunkSizeOf(options)
        overlap == OverlapOf(options)
        text == NormalizeContent(input)
        step == Max2(1, chunkSize - overlap)
    IN  IF text = <<>>
        THEN <<MakeChunk(0, Placeholder)>>
        ELSE ChunkLoop(text, chunkSize, step, 0, 0, <<>>)

(* The input texts: leading whitespace, a word, a gap of whitespace, a     *)
(* second word.  The word lengths lie around the places where a window of  *)
(* chunkText can begin or end.                                             *)
MaxLead == 1
MaxGap == 2
Slack == 1

Word(n) == [i \in 1..n |-> <<"a", "b", "c">>[(i % 3) + 1]]
Gap(n) == [i \in 1..n |-> IF i % 2 = 1 THEN " " ELSE "\n"]

WordLens ==
    {n \in 0..(MIN_CHUNK_SIZE + Slack) :
        \/ n <= Slack
        \/ n >= DEFAULT_OVERLAP - Slack /\ n <= DEFAULT_OVERLAP + Slack
        \/ n >= MIN_CHUNK_SIZE - Slack}

MakeText(lead, head, gap, tail) == Gap(lead) \o Word(head) \o Gap(gap) \o Word(tail)

NoOptions == [k \in {} |-> 0]
ChunkOptions ==
    {NoOptions, [chunkSize |-> 300, overlap |-> 0], [chunkSize |-> 100, overlap |-> 400],
     [chunkSize |-> 301, overlap |-> 1]}

\* a caller passes a text and options to chunkText and keeps what it returns
ChunkCall(input, options) ==
    /\ ck.pc = "idle"
    /\ ck' = [pc |-> "returned", input |-> input, options |-> options,
              result |-> ChunkText(input, options)]
    /\ UNCHANGED <<core, dv, nu, fx, br>>

\* the same caller calls chunkText again with the same arguments
ChunkAgain ==
    /\ ck.pc = "returned"
    /\ ck' = [pc |-> "repeated", input |-> ck.input, options |-> ck.options,
              result |-> ck.result, again |-> ChunkText(ck.input, ck.options)]
    /\ UNCHANGED <<core, dv, nu, fx, br>>

(* One chunkText call for every input text and every option set. *)
NextChunk ==
    \/ \E lead \in 0..MaxLead, head \in WordLens, gap \in 0..MaxGap, tail \in WordLens,
          o \in ChunkOptions : ChunkCall(MakeText(lead, head, gap, tail), o)
    \/ ChunkAgain

SpecChunk == Init /\ [][NextChunk]_vars

----------------------------------------------------------------------------
(* rag/crawler.ts: discoverWebsiteUrls.  A string is a sequence of        *)
(* characters; a raw URL is what new URL() makes of it: whether it parses, *)
(* whether it names a host, its host, path, query and fragment.            *)

MAX_PAGES_CEILING == 200

Range(seq) == {seq[i] : i \in DOMAIN seq}

\* String.prototype.toLowerCase, character by character
LowerMap ==
    LET UpperCase == <<"A", "B", "C", "D", "E", "F", "G", "H", "I", "J", "K", "L", "M", "N", "O", "P", "Q", "R", "S", "T", "U", "V", "W", "X", "Y", "Z">>
        LowerCase == <<"a", "b", "c", "d", "e", "f", "g", "h", "i", "j", "k", "l", "m", "n", "o", "p", "q", "r", "s", "t", "u", "v", "w", "x", "y", "z">>
    IN  [c \in Range(UpperCase) |->
            LowerCase[CHOOSE i \in DOMAIN UpperCase : UpperCase[i] = c]]
ToLower(s) == [i \in DOMAIN s |-> IF s[i] \in DOMAIN LowerMap THEN LowerMap[s[i]] ELSE s[i]]

\* String.prototype.includes and endsWith
Includes(s, part) ==
    \E i \in 1..(Len(s) - Len(part) + 1) : SubSeq(s, i, i + Len(part) - 1) = part
EndsWith(s, part) ==
    Len(s) >= Len(part) /\ SubSeq(s, Len(s) - Len(part) + 1, Len(s)) = part

blockedPathFragments ==
    {<<"/", "w", "p", "-", "a", "d", "m", "i", "n">>,
     <<"/", "a", "c", "c", "o", "u", "n", "t">>,
     <<"/", "c", "h", "e", "c", "k", "o", "u", "t">>,
     <<"/", "c", "a", "r", "t">>,
     <<"/", "l", "o", "g", "i", "n">>,
     <<"/", "s", "i", "g", "n", "u", "p">>,
     <<"/", "a", "u", "t", "h">>,
     <<"/", "a", "d", "m", "i", "n">>}

skipExtensions ==
    {<<".", "p", "d", "f">>,
     <<".", "j", "p", "g">>,
     <<".", "j", "p", "e", "g">>,
     <<".", "p", "n", "g">>,
     <<".", "g", "i", "f">>,
     <<".", "s", "v", "g">>,
     <<".", "w", "e", "b", "p">>,
     <<".", "c", "s", "s">>,
     <<".", "j", "s">>,
     <<".", "i", "c", "o">>,
     <<".", "w", "o", "f", "f">>,
     <<".", "w", "o", "f", "f", "2">>,
     <<".", "t", "t", "f">>,
     <<".", "z", "i", "p">>,
     <<".", "m", "p", "4">>,
     <<".", "m", "p", "3">>}

\* URL.prototype.toString of a normalized URL
Href(u) == <<"h", "t", "t", "p", "s", ":", "/", "/">> \o u.host \o u.path

NoUrl == <<>>

\* new URL(rawUrl, baseUrl) with hash and search cleared and one trailing slash
\* of the path removed; <<>> stands for null, <<u>> for the URL u.  A raw URL
\* without a host is a reference with an absolute path, or with no path at
\* all, which keeps the path of the base
NormalizeUrl(rawUrl, baseUrl) ==
    IF ~rawUrl.valid \/ (~rawUrl.abs /\ baseUrl = NoUrl) THEN NoUrl
    ELSE LET host == IF rawUrl.abs THEN ToLower(rawUrl.host) ELSE baseUrl[1].host
             path == IF rawUrl.path # <<>> THEN rawUrl.path
                     ELSE IF rawUrl.abs THEN <<"/">> ELSE baseUrl[1].path
         IN  <<[host |-> host,
                path |-> IF EndsWith(path, <<"/">>) /\ path # <<"/">>
                         THEN SubSeq(path, 1, Len(path) - 1) ELSE path,
                search |-> FALSE, hash |-> FALSE]>>

\* new URL(url).hostname.toLowerCase()
GetHostname(u) == ToLower(u.host)


\* the lower-cased URL string includes a blocked fragment or ends with a
\* skipped extension
ShouldSkipUrl(u) ==
    LET lower == ToLower(Href(u))
    IN  \/ \E fragment \in blockedPathFragments : Includes(lower, fragment)
        \/ \E extension \in skipExtensions : EndsWith(lower, extension)

\* variant: the hostname is not compared
AcceptAnyHost(raw, baseUrl, rootHost) ==
    LET n == NormalizeUrl(raw, baseUrl)
    IN  IF n = NoUrl THEN NoUrl
        ELSE IF ShouldSkipUrl(n[1]) THEN NoUrl
        ELSE n

\* the three tests every seed, sitemap entry and link goes through:
\* normalizeUrl, getHostname(...) !== rootHost, shouldSkipUrl
Accept(raw, baseUrl, rootHost) ==
    LET n == NormalizeUrl(raw, baseUrl)
    IN  IF n = NoUrl THEN NoUrl
        ELSE IF GetHostname(n[1]) # rootHost THEN NoUrl
        ELSE IF ShouldSkipUrl(n[1]) THEN NoUrl
        ELSE n

\* Set.prototype.add on a Set kept in insertion order
SetAdd(seq, x) == IF x \in Range(seq) THEN seq ELSE Append(seq, x)

\* extractInternalLinks, and the same filters on the links of a rendered page
RECURSIVE ExtractInternalLinks(_, _, _)
ExtractInternalLinks(hrefs, pageUrl, rootHost) ==
    IF hrefs = <<>> THEN <<>>
    ELSE Accept(Head(hrefs), <<pageUrl>>, rootHost)
            \o ExtractInternalLinks(Tail(hrefs), pageUrl, rootHost)

\* Math.max(1, Math.min(options.maxPages, 200))
ClampMaxPages(n) == Max2(1, Min2(n, MAX_PAGES_CEILING))

\* Array.from(dedup).slice(0, maxPages)
FirstUrls(dedup, maxPages) == SubSeq(dedup, 1, Min2(maxPages, Len(dedup)))

(* The raw URLs a caller, a sitemap or a page can hold. *)
\* a string new URL() rejects
Raw8 ==
    [abs |-> TRUE, valid |-> FALSE, host |-> <<>>, path |-> <<>>, search |-> FALSE, hash |-> FALSE]

RawPool ==
    {\* an absolute URL of the site
     [abs |-> TRUE, valid |-> TRUE, host |-> <<"a", ".", "i", "o">>, path |-> <<"/", "p">>, search |-> FALSE, hash |-> FALSE],
     \* the same page with a trailing slash, a query and a fragment
     [abs |-> FALSE, valid |-> TRUE, host |-> <<>>, path |-> <<"/", "p", "/">>, search |-> TRUE, hash |-> TRUE],
     \* another site
     [abs |-> TRUE, valid |-> TRUE, host |-> <<"b", ".", "i", "o">>, path |-> <<"/", "p">>, search |-> FALSE, hash |-> FALSE],
     \* a subdomain of the site
     [abs |-> TRUE, valid |-> TRUE, host |-> <<"s", ".", "a", ".", "i", "o">>, path |-> <<"/">>, search |-> FALSE, hash |-> FALSE],
     \* a blocked path
     [abs |-> FALSE, valid |-> TRUE, host |-> <<>>, path |-> <<"/", "a", "d", "m", "i", "n", "/", "x">>, search |-> FALSE, hash |-> FALSE],
     \* a skipped extension, in capitals
     [abs |-> FALSE, valid |-> TRUE, host |-> <<>>, path |-> <<"/", "x", ".", "P", "D", "F">>, search |-> FALSE, hash |-> FALSE],
     \* the site's host in capitals
     [abs |-> TRUE, valid |-> TRUE, host |-> <<"A", ".", "I", "O">>, path |-> <<"/", "q">>, search |-> FALSE, hash |-> FALSE],
     \* a relative link
     [abs |-> FALSE, valid |-> TRUE, host |-> <<>>, path |-> <<"/", "r">>, search |-> FALSE, hash |-> FALSE],
     Raw8}

\* what a caller passes as websiteUrl: the site, a blocked path of the site,
\* a string that is no URL
WebsiteUrls ==
    {[abs |-> TRUE, valid |-> TRUE, host |-> <<"a", ".", "i", "o">>, path |-> <<"/">>, search |-> FALSE, hash |-> FALSE],
     [abs |-> TRUE, valid |-> TRUE, host |-> <<"a", ".", "i", "o">>, path |-> <<"/", "a", "d", "m", "i", "n">>, search |-> FALSE, hash |-> FALSE],
     Raw8}

MaxSeeds == 1
MaxSitemap == 1
MaxLinks == 1

SeqsUpTo(S, n) == UNION {[1..k -> S] : k \in 0..n}

\* what fetching a page during discovery gives: nothing to read (a status
\* outside 2xx, no text/html, an exception), or the hrefs of its anchors and
\* the links of the rendered page, empty when there is no rendering
FetchedPages ==
    {[ok |-> FALSE, hrefs |-> <<>>, rendered |-> <<>>]}
        \cup {[ok |-> TRUE, hrefs |-> h, rendered |-> r] :
                 h \in SeqsUpTo(RawPool, MaxLinks), r \in SeqsUpTo(RawPool, 1)}

IdleDiscovery ==
    [pc |-> "idle", maxPagesIn |-> 0, maxPages |-> 0, rootUrl |-> NoUrl, rootHost |-> <<>>,
     dedup |-> <<>>, todo |-> <<>>, queue |-> <<>>, visited |-> {}, result |-> <<>>]

\* return Array.from(dedup).slice(0, maxPages)
Returned(d, dedup) ==
    [IdleDiscovery EXCEPT !.pc = "returned", !.maxPagesIn = d.maxPagesIn,
                          !.maxPages = d.maxPages, !.rootUrl = d.rootUrl,
                          !.rootHost = d.rootHost, !.dedup = dedup,
                          !.visited = d.visited,
                          !.result = FirstUrls(dedup, d.maxPages)]

\* discoverWebsiteUrls up to the seed loop: maxPages, rootUrl, rootHost, dedup
DiscoverStart(websiteUrl, seedUrls, maxPagesIn) ==
    /\ dv.pc = "idle"
    /\ LET root == NormalizeUrl(websiteUrl, NoUrl)
       IN  dv' = IF root = NoUrl
                 THEN [IdleDiscovery EXCEPT !.pc = "thrown", !.maxPagesIn = maxPagesIn]
                 ELSE [IdleDiscovery EXCEPT
                          !.pc = "seeds", !.maxPagesIn = maxPagesIn,
                          !.maxPages = ClampMaxPages(maxPagesIn),
                          !.rootUrl = root, !.rootHost = GetHostname(root[1]),
                          !.dedup = root, !.todo = seedUrls]
    /\ UNCHANGED <<core, ck, nu, fx, br>>

\* one pass of the seed loop or of the sitemap loop
CandidateStep ==
    /\ dv.pc \in {"seeds", "sitemap"}
    /\ dv.todo # <<>>
    /\ LET a == Accept(Head(dv.todo), dv.rootUrl, dv.rootHost)
           dedup == IF a = NoUrl THEN dv.dedup ELSE SetAdd(dv.dedup, a[1])
       IN  dv' = IF a # NoUrl /\ Len(dedup) >= dv.maxPages
                 THEN Returned(dv, dedup)
                 ELSE [dv EXCEPT !.dedup = dedup, !.todo = Tail(dv.todo)]
    /\ UNCHANGED <<core, ck, nu, fx, br>>

\* fetchSitemapUrls: the <loc> entries, none when the sitemap cannot be read
FetchSitemap(entries) ==
    /\ dv.pc = "seeds"
    /\ dv.todo = <<>>
    /\ dv' = [dv EXCEPT !.pc = "sitemap", !.todo = entries]
    /\ UNCHANGED <<core, ck, nu, fx, br>>

\* const queue = Array.from(dedup); const visited = new Set()
BfsStart ==
    /\ dv.pc = "sitemap"
    /\ dv.todo = <<>>
    /\ dv' = [dv EXCEPT !.pc = "bfs", !.queue = dv.dedup, !.visited = {}]
    /\ UNCHANGED <<core, ck, nu, fx, br>>

\* for (const link of links): skip known links, add and enqueue the others,
\* stop when dedup has maxPages entries
RECURSIVE AddLinks(_, _, _, _)
AddLinks(links, dedup, queue, maxPages) ==
    IF links = <<>> THEN [dedup |-> dedup, queue |-> queue]
    ELSE IF Head(links) \in Range(dedup)
    THEN AddLinks(Tail(links), dedup, queue, maxPages)
    ELSE IF Len(dedup) + 1 >= maxPages
    THEN [dedup |-> Append(dedup, Head(links)), queue |-> Append(queue, Head(links))]
    ELSE AddLinks(Tail(links), Append(dedup, Head(links)), Append(queue, Head(links)),
                  maxPages)

\* one pass of the while loop: the head of the queue is fetched and its links
\* are added
BfsVisit(page) ==
    /\ dv.pc = "bfs"
    /\ dv.queue # <<>> /\ Len(dv.dedup) < dv.maxPages
    /\ LET current == Head(dv.queue)
           html == ExtractInternalLinks(page.hrefs, current, dv.rootHost)
           links == IF html = <<>>
                    THEN ExtractInternalLinks(page.rendered, current, dv.rootHost)
                    ELSE html
           added == AddLinks(links, dv.dedup, Tail(dv.queue), dv.maxPages)
       IN  dv' = IF current \in dv.visited
                 THEN [dv EXCEPT !.queue = Tail(dv.queue)]
                 ELSE IF ~page.ok
                 THEN [dv EXCEPT !.queue = Tail(dv.queue),
                                 !.visited = dv.visited \cup {current}]
                 ELSE [dv EXCEPT !.queue = added.queue, !.dedup = added.dedup,
                                 !.visited = dv.visited \cup {current}]
    /\ UNCHANGED <<core, ck, nu, fx, br>>

\* the while condition fails: the first maxPages URLs of dedup are returned
BfsReturn ==
    /\ dv.pc = "bfs"
    /\ ~(dv.queue # <<>> /\ Len(dv.dedup) < dv.maxPages)
    /\ dv' = Returned(dv, dv.dedup)
    /\ UNCHANGED <<core, ck, nu, fx, br>>

(* One discoverWebsiteUrls call, for every website URL, seed list, sitemap  *)
(* and link graph over the raw URLs.                                        *)
NextDiscover ==
    \/ \E w \in WebsiteUrls, s \in SeqsUpTo(RawPool, MaxSeeds), m \in {0, 2, 3, 1000} :
          DiscoverStart(w, s, m)
    \/ CandidateStep
    \/ \E entries \in SeqsUpTo(RawPool, MaxSitemap) : FetchSitemap(entries)
    \/ BfsStart
    \/ \E page \in FetchedPages : BfsVisit(page)
    \/ BfsReturn

SpecDiscover == Init /\ [][NextDiscover]_vars

----------------------------------------------------------------------------
(* One normalizeUrl call, and a second call on what the first returned.    *)

MaxSegments == 1
MaxSlashes == 2

\* s repeated n times
RECURSIVE Repeat(_, _)
Repeat(s, n) == IF n = 0 THEN <<>> ELSE s \o Repeat(s, n - 1)

\* the raw strings handed to normalizeUrl: URLs with a host, in either case,
\* references without one (a reference that starts with // names a host),
\* each with or without a query and a fragment, and a string new URL()
\* rejects; a path is k segments /p, then j more slashes
RawUrls ==
    LET RawPaths ==
            {Repeat(<<"/", "p">>, k) \o Repeat(<<"/">>, j) :
                k \in 0..MaxSegments, j \in 0..MaxSlashes}
    IN  {[abs |-> TRUE, valid |-> TRUE, host |-> h, path |-> p, search |-> q, hash |-> f] :
            h \in {<<"a", ".", "i", "o">>, <<"A", ".", "I", "O">>}, p \in RawPaths,
            q \in BOOLEAN, f \in BOOLEAN}
          \cup {[abs |-> FALSE, valid |-> TRUE, host |-> <<>>, path |-> p, search |-> q, hash |-> f] :
                    p \in {r \in RawPaths : Len(r) < 2 \/ r[2] # "/"},
                    q \in BOOLEAN, f \in BOOLEAN}
          \cup {Raw8}

\* the base URLs of the callers: none, or a URL normalizeUrl returned before
BaseUrls == {NoUrl, <<[host |-> <<"a", ".", "i", "o">>, path |-> <<"/", "b">>, search |-> FALSE, hash |-> FALSE]>>}

\* new URL(u.toString()): the URL a returned string parses to
ParseHref(u) ==
    [abs |-> TRUE, valid |-> TRUE, host |-> u.host, path |-> u.path,
     search |-> u.search, hash |-> u.hash]

NormalizeCall(rawUrl, baseUrl) ==
    /\ nu.pc = "idle"
    /\ nu' = [pc |-> "returned", rawUrl |-> rawUrl, baseUrl |-> baseUrl,
              out |-> NormalizeUrl(rawUrl, baseUrl)]
    /\ UNCHANGED <<core, ck, dv, fx, br>>

\* normalizeUrl on the string the first call returned
NormalizeAgain ==
    /\ nu.pc = "returned"
    /\ nu.out # NoUrl
    /\ nu' = [pc |-> "again", rawUrl |-> nu.rawUrl, baseUrl |-> nu.baseUrl,
              out |-> nu.out, again |-> NormalizeUrl(ParseHref(nu.out[1]), NoUrl)]
    /\ UNCHANGED <<core, ck, dv, fx, br>>

NextNormalize ==
    \/ \E rawUrl \in RawUrls, baseUrl \in BaseUrls : NormalizeCall(rawUrl, baseUrl)
    \/ NormalizeAgain

SpecNormalize == Init /\ [][NextNormalize]_vars

----------------------------------------------------------------------------
(* One fetchAndExtractPage call: the page's text is fetched through the    *)
(* reader service and a text that came back empty is replaced.             *)

MaxBody == 4

\* the URLs the manager hands over: URLs discovery can return
PageUrls == {Href(n[1]) : n \in {NormalizeUrl(r, NoUrl) : r \in RawPool} \ {NoUrl}}

\* what axios.get of the reader service does: it throws (no connection, a
\* timeout, a status outside 2xx), or it answers with a string, or with data
\* that is no string
JinaOutcomes ==
    {[kind |-> "throws", data |-> <<>>], [kind |-> "object", data |-> <<>>]}
        \cup {[kind |-> "string", data |-> t] : t \in SeqsUpTo({" ", "x"}, MaxBody)}

\* typeof response.data === "string" ? response.data : ""
FetchWithJina(outcome) == IF outcome.kind = "string" THEN outcome.data ELSE <<>>

\* variant: the fetched text is returned as it is
FetchAndExtractNoPlaceholder(url, outcome) ==
    IF outcome.kind = "throws"
    THEN [thrown |-> TRUE, url |-> url, contentText |-> <<>>, httpStatus |-> 0]
    ELSE [thrown |-> FALSE, url |-> url, contentText |-> FetchWithJina(outcome),
          httpStatus |-> 200]

\* fetchAndExtractPage: contentText || `Source URL: ${options.url}`, and
\* "Failed to fetch" thrown when the fetch throws
FetchAndExtractPage(url, outcome) ==
    IF outcome.kind = "throws"
    THEN [thrown |-> TRUE, url |-> url, contentText |-> <<>>, httpStatus |-> 0]
    ELSE LET contentText == FetchWithJina(outcome)
             prefix == <<"S", "o", "u", "r", "c", "e", " ", "U", "R", "L", ":", " ">>
         IN  [thrown |-> FALSE, url |-> url,
              contentText |-> IF contentText # <<>> THEN contentText
                              ELSE prefix \o url,
              httpStatus |-> 200]

ExtractCall(url, outcome) ==
    /\ fx.pc = "idle"
    /\ fx' = [pc |-> "settled", url |-> url, fetched |-> outcome,
              page |-> FetchAndExtractPage(url, outcome)]
    /\ UNCHANGED <<core, ck, dv, nu, br>>

\* the next page
ExtractNext ==
    /\ fx.pc = "settled"
    /\ fx' = [pc |-> "idle"]
    /\ UNCHANGED <<core, ck, dv, nu, br>>

NextExtract ==
    \/ \E url \in PageUrls, outcome \in JinaOutcomes : ExtractCall(url, outcome)
    \/ ExtractNext

SpecExtract == Init /\ [][NextExtract]_vars

----------------------------------------------------------------------------
(* The process's browser: browserPromise, getPlaywrightBrowser and the     *)
(* renderPageWithPlaywright calls of the pages and jobs of the process.    *)
(* JavaScript runs getPlaywrightBrowser up to its return without another   *)
(* task in between; a caller is suspended at each await.                   *)

NumCallers == 2
MaxRenders == 2

Callers == 1..NumCallers

\* the value of a settled browser promise: null, or the browser a launch made
NoBrowser == 0

NoPromise == [state |-> "none", value |-> NoBrowser]

\* variant: browserPromise is not looked at, every call launches
GetBrowserAlwaysLaunching(b) ==
    IF ~b.enabled THEN b
    ELSE [b EXCEPT !.promise = [state |-> "pending", value |-> NoBrowser],
                   !.launches = @ + 1]

\* getPlaywrightBrowser up to its return: null when disabled; the launch is
\* started and its promise kept when no promise is there; the kept promise is
\* returned
GetPlaywrightBrowser(b) ==
    IF ~b.enabled THEN b
    ELSE IF b.promise = NoPromise
    THEN [b EXCEPT !.promise = [state |-> "pending", value |-> NoBrowser],
                   !.launches = @ + 1]
    ELSE b

\* the module is loaded: playwrightEnabled is read from the environment
ModuleLoad(enabled) ==
    /\ br.pc = "unloaded"
    /\ br' = [pc |-> "loaded", enabled |-> enabled, promise |-> NoPromise,
              launches |-> 0,
              callers |-> [c \in Callers |-> [pc |-> "idle", got |-> NoBrowser,
                                              result |-> "none", renders |-> 0]]]
    /\ UNCHANGED <<core, ck, dv, nu, fx>>

\* renderPageWithPlaywright is called and awaits getPlaywrightBrowser()
RenderCall(c) ==
    /\ br.pc = "loaded"
    /\ br.callers[c].pc = "idle"
    /\ br.callers[c].renders < MaxRenders
    /\ br' = [GetPlaywrightBrowser(br) EXCEPT
                 !.callers[c] = [pc |-> "await", got |-> NoBrowser, result |-> "none",
                                 renders |-> br.callers[c].renders + 1]]
    /\ UNCHANGED <<core, ck, dv, nu, fx>>

\* the launch ends: chromium.launch returns a browser, or the import or the
\* launch throws and the catch makes the promise's value null
LaunchSettles(ok) ==
    /\ br.pc = "loaded"
    /\ br.promise.state = "pending"
    /\ br' = [br EXCEPT !.promise = [state |-> "settled",
                                     value |-> IF ok THEN br.launches ELSE NoBrowser]]
    /\ UNCHANGED <<core, ck, dv, nu, fx>>

\* the await of a caller ends with the promise's value: null ends the call
\* with null, a browser is asked for a page
BrowserReceived(c) ==
    /\ br.pc = "loaded"
    /\ br.callers[c].pc = "await"
    /\ ~br.enabled \/ br.promise.state = "settled"
    /\ LET browser == IF br.enabled THEN br.promise.value ELSE NoBrowser
       IN  br' = [br EXCEPT !.callers[c] =
                     IF browser = NoBrowser
                     THEN [@ EXCEPT !.pc = "returned", !.result = "null"]
                     ELSE [@ EXCEPT !.pc = "page", !.got = browser]]
    /\ UNCHANGED <<core, ck, dv, nu, fx>>

\* what the rest of renderPageWithPlaywright ends with: the text and links,
\* null from the catch around goto and evaluate, or the exception of
\* browser.newPage, which is outside the try
RenderOutcomes == {"rendered", "null", "exception"}

RenderEnds(c, outcome) ==
    /\ br.pc = "loaded"
    /\ br.callers[c].pc = "page"
    /\ br' = [br EXCEPT !.callers[c] = [@ EXCEPT !.pc = "returned", !.result = outcome]]
    /\ UNCHANGED <<core, ck, dv, nu, fx>>

\* the caller goes on to its next page
RenderNext(c) ==
    /\ br.pc = "loaded"
    /\ br.callers[c].pc = "returned"
    /\ br' = [br EXCEPT !.callers[c] = [@ EXCEPT !.pc = "idle"]]
    /\ UNCHANGED <<core, ck, dv, nu, fx>>

NextBrowser ==
    \/ \E enabled \in BOOLEAN : ModuleLoad(enabled)
    \/ \E c \in Callers : RenderCall(c)
    \/ \E ok \in BOOLEAN : LaunchSettles(ok)
    \/ \E c \in Callers : BrowserReceived(c)
    \/ \E c \in Callers, outcome \in RenderOutcomes : RenderEnds(c, outcome)
    \/ \E c \in Callers : RenderNext(c)

SpecBrowser == Init /\ [][NextBrowser]_vars

Runs == 1..MaxCalls

(* One job from its startJob call to its end, with cancel calls, the clock   *)
(* and the maintenance sweep.                                               *)
Next ==
    \/ StartCheck(1, 1)
    \/ StartInsert(1)
    \/ \E n \in Urls : Discover(1, n)
    \/ DiscoverFails(1)
    \/ \E w \in Workers : WorkerTake(1, w)
    \/ \E w \in Workers, o \in PageOutcomes : PageDone(1, w, o)
    \/ \E w \in Workers : ApplyProgress(1, w)
    \/ Finalize(1)
    \/ ApplyFinal(1)
    \/ CancelOnce(1)
    \/ ApplyCancel(1)
    \/ Tick
    \/ Sweep

Spec == Init /\ [][Next]_vars

(* Concurrent startJob calls; each accepted job ends by a failed discovery. *)
NextStart ==
    \/ \E c \in Calls, b \in Chatbots : StartCheck(c, b)
    \/ \E c \in Calls : StartInsert(c)
    \/ \E r \in Runs : DiscoverFails(r)
    \/ \E r \in Runs : ApplyFinal(r)

SpecStart == Init /\ [][NextStart]_vars

(* One job and its worker pool, with a cancel call at any time.           *)
NextPool ==
    \/ StartCheck(1, 1)
    \/ StartInsert(1)
    \/ \E n \in Urls : Discover(1, n)
    \/ DiscoverFails(1)
    \/ \E w \in Workers : WorkerTake(1, w)
    \/ \E w \in Workers, o \in PageOutcomes : PageDone(1, w, o)
    \/ \E w \in Workers : ApplyProgress(1, w)
    \/ Finalize(1)
    \/ ApplyFinal(1)
    \/ CancelOnce(1)
    \/ ApplyCancel(1)

SpecPool == Init /\ [][NextPool]_vars

(* One job with one URL and one worker, and cancel calls at any time: before *)
(* the job starts its page, while a cancel write is pending, after the job   *)
(* has ended.                                                              *)
NextCancel ==
    \/ StartCheck(1, 1)
    \/ StartInsert(1)
    \/ Discover(1, 1)
    \/ DiscoverFails(1)
    \/ WorkerTake(1, 1)
    \/ \E o \in PageOutcomes : PageDone(1, 1, o)
    \/ ApplyProgress(1, 1)
    \/ Finalize(1)
    \/ ApplyFinal(1)
    \/ Cancel(1)
    \/ ApplyCancel(1)
    \/ Tick
    \/ Sweep

SpecCancel == Init /\ [][NextCancel]_vars

(* Two startJob calls, with and without isResync, for the chatbots; each  *)
(* job has one URL and one worker.                                          *)
NextResync ==
    \/ \E c \in {1, 2}, b \in Chatbots :
          (\A d \in Calls : d < c => calls[d].pc # "idle") /\ StartCheck(c, b)
    \/ \E c \in {1, 2} : StartInsert(c)
    \/ \E c \in {1, 2} : StartInsertResync(c)
    \/ \E r \in Runs : ClearChunks(r)
    \/ \E r \in Runs : ClearPages(r)
    \/ \E r \in Runs : ClearFails(r)
    \/ \E r \in Runs : Discover(r, 1)
    \/ \E r \in Runs : WorkerTake(r, 1)
    \/ \E r \in Runs, o \in PageOutcomes : PageDone(r, 1, o)
    \/ \E r \in Runs : ApplyProgress(r, 1)
    \/ \E r \in Runs : Finalize(r)
    \/ \E r \in Runs : ApplyFinal(r)

SpecResync == Init /\ [][NextResync]_vars

\* the startJob calls that arrive, numbered in the order of their arrival
Arrivals == {1, 2, 3}

\* the c-th startJob call arrives, for chatbot 1
Arrive(c) ==
    /\ \A d \in Arrivals : d < c => calls[d].pc # "idle"
    /\ StartCheck(c, 1)

(* startJob calls for one chatbot, jobs that end by a failed discovery, the *)
(* clock, and the maintenance sweep.                                       *)
NextSweep ==
    \/ \E c \in Arrivals : Arrive(c)
    \/ \E c \in Arrivals : StartInsert(c)
    \/ \E r \in Runs : DiscoverFails(r)
    \/ \E r \in Runs : ApplyFinal(r)
    \/ Tick
    \/ Sweep

SpecSweep == Init /\ [][NextSweep]_vars

(* Two startJob calls for one chatbot, jobs that end by a failed discovery  *)
(* or are lost in a crash of the process, the clock, and the maintenance    *)
(* sweep, which the scheduler keeps running.                                *)
NextCrash ==
    \/ \E c \in {1, 2} : Arrive(c)
    \/ \E c \in {1, 2} : StartInsert(c)
    \/ \E r \in Runs : DiscoverFails(r)
    \/ \E r \in Runs : ApplyFinal(r)
    \/ Crash
    \/ Tick
    \/ Sweep

SpecCrash == Init /\ [][NextCrash]_vars /\ WF_vars(Tick) /\ WF_vars(Sweep)

----------------------------------------------------------------------------
(* The job state machine: start, terminal states, cancellation, progress *)

RunningRunsOf(b) ==
    {r \in DOMAIN runs : runs[r].chatbot_id = b /\ runs[r].status = "running"}

\* C1: in every reachable state each chatbot has at most one run whose status
\* is running, also when two startJob calls both pass the running-run check
\* before either inserts.
C1_AtMostOneRunningPerChatbot ==
    \A b \in Chatbots : Cardinality(RunningRunsOf(b)) <= 1

\* C2: a startJob call that starts when an earlier call for the same chatbot
\* has returned and its run is still running ends in a conflict, ends there,
\* and leaves the run table and the job map as they were.
C2_SecondStartConflicts ==
    [][\A c \in Calls :
        /\ (/\ calls[c].pc = "idle"
            /\ calls'[c].pc # "idle"
            /\ \E d \in Calls :
                  /\ calls[d].pc = "ok"
                  /\ calls[d].chatbotId = calls'[c].chatbotId
                  /\ runs[calls[d].runId].status = "running")
           => (calls'[c].pc = "conflict" /\ runs' = runs /\ jobs' = jobs)
        /\ calls[c].pc = "conflict" => calls'[c] = calls[c]]_vars

C2_Witness ==
    \E c, d \in Calls :
        /\ calls[c].pc = "conflict"
        /\ calls[d].pc = "ok"
        /\ calls[d].chatbotId = calls[c].chatbotId
        /\ runs[calls[d].runId].status = "running"
        /\ Len(runs) = 1

\* C3: once a run's persisted status is done, failed or canceled, no later
\* step changes it.
C3_TerminalStatusNeverChanges ==
    [][\A r \in DOMAIN runs :
        runs[r].status \in Terminal => runs'[r].status = runs[r].status]_vars

\* C4: a job whose cancel was accepted while it was running is never done, and
\* once its workers have drained and its terminal write is applied the
\* persisted status is canceled.
C4_CancelEndsCanceled ==
    \A r \in DOMAIN jobs :
        jobs[r].cancelRequested =>
            /\ jobs[r].status # "done"
            /\ runs[r].status # "done"
            /\ (jobs[r].phase = "finished" /\ jobs[r].status # "failed")
                   => runs[r].status = "canceled"

C4_Witness ==
    \E r \in DOMAIN jobs :
        /\ jobs[r].lateCancel
        /\ jobs[r].phase = "finished"
        /\ jobs[r].pagesCrawled = jobs[r].pagesFound
        /\ runs[r].status = "canceled"

\* C5: the persisted pages_found, pages_crawled and chunks_written of a run
\* never decrease from one state to the next.
C5_CountersNeverDecrease ==
    [][\A r \in DOMAIN runs :
        /\ runs'[r].pages_found >= runs[r].pages_found
        /\ runs'[r].pages_crawled >= runs[r].pages_crawled
        /\ runs'[r].chunks_written >= runs[r].chunks_written]_vars

FailedUrls(job) == {job.log[i][1] : i \in {j \in DOMAIN job.log : job.log[j][2] # "ok"}}

FailureMessages(job) ==
    SelectSeq([i \in DOMAIN job.log |->
                  IF job.log[i][2] = "ok" THEN NoError
                  ELSE PageError(job.log[i][1], job.log[i][2])],
              LAMBDA m : m # NoError)

\* C7: while a run is running, its stored error, once non-null, is the message
\* of the first page failure of the job and no later write changes it; the
\* job's own error field behaves the same.
C7_FirstErrorWins ==
    [][\A r \in DOMAIN jobs :
        /\ (runs[r].status = "running" /\ runs[r].error # NoError)
              => /\ runs[r].error = Head(FailureMessages(jobs[r]))
                 /\ runs'[r].status = "running" => runs'[r].error = runs[r].error
        /\ (jobs[r].status = "running" /\ jobs[r].error # NoError)
              => /\ jobs[r].error = Head(FailureMessages(jobs[r]))
                 /\ jobs'[r].status = "running" => jobs'[r].error = jobs[r].error]_vars

C7_Witness ==
    \E r \in DOMAIN jobs :
        /\ Len(FailureMessages(jobs[r])) >= 2
        /\ runs[r].status = "running"
        /\ Drained(r)
        /\ runs[r].error = Head(FailureMessages(jobs[r]))
        /\ runs[r].error # FailureMessages(jobs[r])[2]

----------------------------------------------------------------------------
(* The maintenance sweep and crashes *)

\* C14: a sweep with cutoff T = now - StaleAfter changes exactly the runs that
\* are running with updated_at earlier than T: each becomes failed with the
\* stale-heartbeat reason, finished_at and updated_at set to the time of the
\* sweep, its other fields kept; every other run is left as it was.
C14_SweepChangesExactlyStaleRunningRuns ==
    [][Sweep =>
        \A r \in DOMAIN runs :
            IF runs[r].status = "running" /\ runs[r].updated_at < now - StaleAfter
            THEN runs'[r] = [runs[r] EXCEPT !.status = "failed", !.error = StaleError,
                                            !.finished_at = now, !.updated_at = now]
            ELSE runs'[r] = runs[r]]_vars

C14_Witness ==
    \E r1, r2, r3 \in DOMAIN runs :
        /\ runs[r1].status = "failed" /\ runs[r1].error = StaleError
        /\ runs[r2].status = "failed" /\ runs[r2].error # StaleError
        /\ runs[r2].updated_at < runs[r1].finished_at - StaleAfter
        /\ runs[r3].status = "running"

\* C15: a running run whose process has crashed, and whose heartbeat leaves
\* the clock room to pass the threshold, is eventually failed by the sweep;
\* every such run, crashed or not, eventually leaves running; and a startJob
\* call that checks when no run of its chatbot is running is accepted.
C15_CrashedRunsAreReconciled ==
    /\ \A r \in Runs :
          (Orphaned(r) /\ runs[r].status = "running"
                       /\ runs[r].updated_at + StaleAfter < MaxClock)
              ~> (/\ r \in DOMAIN runs
                  /\ runs[r].status = "failed" /\ runs[r].error = StaleError)
    /\ \A r \in Runs :
          (r \in DOMAIN runs /\ runs[r].status = "running"
                             /\ runs[r].updated_at + StaleAfter < MaxClock)
              ~> (r \in DOMAIN runs /\ runs[r].status \in Terminal)
    /\ [][\A c \in Calls :
            (calls[c].pc = "idle" /\ calls'[c].pc # "idle"
                /\ RunningRunsOf(calls'[c].chatbotId) = {})
              => calls'[c].pc = "checked"]_vars

C15_Witness ==
    \E r, n \in DOMAIN runs :
        /\ Orphaned(r)
        /\ runs[r].status = "failed" /\ runs[r].error = StaleError
        /\ n > r /\ runs[n].chatbot_id = runs[r].chatbot_id
        /\ runs[n].status = "running"
        /\ \E c \in Calls : calls[c].pc = "ok" /\ calls[c].runId = n

----------------------------------------------------------------------------
(* The page and chunk store *)

\* C8: an upsertPage that returns gives changed = TRUE exactly when it read no
\* row for (chatbot, url) or the row it read holds another hash than the hash
\* of the new text; when it gives FALSE the pipeline ends there: no chunking,
\* no embedding, no chunk is deleted or inserted.
C8_ChangedIffNewOrHashDiffers ==
    [][\A k \in Tasks :
        (tasks[k].pc = "upsert" /\ tasks'[k].pc # "upsert" /\ tasks'[k].upserted) =>
            /\ tasks'[k].changed =
                  (\/ tasks[k].existing = {}
                   \/ \E p \in tasks[k].existing :
                         p.content_hash # ComputeContentHash(tasks[k].text))
            /\ ~tasks'[k].changed =>
                  (tasks'[k].pc = "idle" /\ ~tasks'[k].worked /\ chunks' = chunks)]_vars

C8_Witness ==
    \E k \in Tasks :
        /\ tasks[k].pc = "idle" /\ tasks[k].upserted
        /\ ~tasks[k].changed /\ ~tasks[k].worked
        /\ \A j \in Tasks : tasks[j].pc = "idle"
        /\ Cardinality(pages) = 1
        /\ Cardinality(chunks) = ChunksPerText

ChunkRowsOf(p, text) == InsertPageChunks({}, p.chatbot_id, p.id, PageChunks(text))

\* C9: in every state the chunks stored for a page that has had a chunk set
\* are a complete chunk set of one text: never a partial set, never none.
C9_ChunkSetsAreComplete ==
    \A p \in pages :
        p.id \in everChunked =>
            \E t \in Texts : ChunksOfPage(chunks, p.id) = ChunkRowsOf(p, t)

\* C30: whenever no crawl of a page is under way, also after a crawl whose
\* embedding or chunk insert failed once upsertPage had stored the new hash,
\* a page with status ok holds exactly the chunks of the text whose hash the
\* page holds; a later crawl of that text, which finds the page unchanged,
\* does not leave it ok with chunks missing or outdated.
C30_OkPageHoldsChunksOfItsHash ==
    (\A k \in Tasks : tasks[k].pc = "idle") =>
        \A p \in pages :
            p.status = "ok" =>
                \E t \in Texts :
                    /\ ComputeContentHash(t) = p.content_hash
                    /\ ChunksOfPage(chunks, p.id) = ChunkRowsOf(p, t)

\* C17: in every state the page table holds at most one row for each pair
\* of chatbot and URL, whatever the interleaving of the requests of upsertPage
\* and markPageFailure, two inserts for the same new pair included.
C17_OnePagePerChatbotAndUrl ==
    \A p, q \in pages : (p.chatbot_id = q.chatbot_id /\ p.url = q.url) => p = q

C17_Witness ==
    \E j, k \in Tasks :
        /\ j # k
        /\ tasks[j].pc = "embed" /\ tasks[j].existing = {}
        /\ tasks[k].pc = "upsert" /\ tasks[k].existing = {}
        /\ tasks[k].chatbotId = tasks[j].chatbotId /\ tasks[k].url = tasks[j].url
        /\ Cardinality(SelectPage(pages, tasks[k].chatbotId, tasks[k].url)) = 1

PagesOf(ps, b) == {p \in ps : p.chatbot_id = b}
ChunksOf(cs, b) == {c \in cs : c.chatbot_id = b}

\* C16: once a resync job is past its clear, no page and no chunk that its
\* chatbot had when the job was created is left; a resync job discovers
\* nothing and writes no page before its clear has ended; and a page row
\* disappears only in the clear of a resync job for the page's chatbot.
C16_ResyncClearsBeforeDiscovery ==
    [][/\ \A r \in DOMAIN jobs :
            (jobs[r].isResync /\ jobs[r].phase \notin {"clear", "clear_pages"}
                              /\ jobs[r].error # <<"Failed to clear rag data">>) =>
                /\ \A p \in PagesOf(pages, jobs[r].chatbotId) : p.id >= jobs[r].startId
                /\ \A c \in ChunksOf(chunks, jobs[r].chatbotId) : c.page_id >= jobs[r].startId
       /\ \A r \in DOMAIN jobs :
            (jobs[r].isResync /\ jobs[r].phase \in {"clear", "clear_pages"}) =>
                /\ jobs'[r].pagesFound = 0 /\ jobs'[r].log = <<>>
                /\ jobs'[r].phase \in {"clear", "clear_pages", "discover", "finalizing"}
       /\ \A p \in pages :
            (\A q \in pages' : q.id # p.id) =>
                \E r \in DOMAIN jobs :
                    /\ jobs[r].isResync /\ jobs[r].chatbotId = p.chatbot_id
                    /\ jobs[r].phase = "clear_pages" /\ jobs'[r].phase = "discover"]_vars

C16_Witness ==
    \E r \in DOMAIN jobs :
        /\ jobs[r].isResync /\ jobs[r].phase = "finished" /\ jobs[r].status = "done"
        /\ jobs[r].startId > 1
        /\ \E p \in PagesOf(pages, jobs[r].chatbotId) : p.id >= jobs[r].startId
        /\ ChunksOf(chunks, jobs[r].chatbotId) # {}

\* C18: a step of a job, whether a page's store calls or a request of the
\* clear, leaves the pages and chunks of every other chatbot as they were,
\* and the step that ends a clear leaves the job's chatbot with no page and
\* no chunk.
C18_TenantIsolation ==
    [][\A r \in DOMAIN jobs :
        jobs'[r] # jobs[r] =>
            /\ \A b \in Chatbots \ {jobs[r].chatbotId} :
                  /\ PagesOf(pages', b) = PagesOf(pages, b)
                  /\ ChunksOf(chunks', b) = ChunksOf(chunks, b)
            /\ (jobs[r].phase = "clear_pages" /\ jobs'[r].phase = "discover") =>
                  /\ PagesOf(pages', jobs[r].chatbotId) = {}
                  /\ ChunksOf(chunks', jobs[r].chatbotId) = {}]_vars

C18_Witness ==
    \E r \in DOMAIN jobs, b \in Chatbots :
        /\ jobs[r].isResync /\ jobs[r].phase = "discover" /\ jobs[r].status = "running"
        /\ b # jobs[r].chatbotId
        /\ PagesOf(pages, jobs[r].chatbotId) = {}
        /\ PagesOf(pages, b) # {} /\ ChunksOf(chunks, b) # {}

----------------------------------------------------------------------------
(* The embedding retry loop *)

AllAttempts429 == \A i \in DOMAIN retry.hist : retry.hist[i].status = 429

\* C10: a call whose attempts all fail with 429 is attempted exactly 5 times
\* before the error is thrown, and is neither thrown nor returned before; a
\* call whose first attempt fails with 400 is attempted exactly once.
C10_RetryBound ==
    /\ (AllAttempts429 /\ retry.pc = "thrown") => Len(retry.hist) = 5
    /\ (AllAttempts429 /\ Len(retry.hist) < 5) => retry.pc \in {"call", "sleep"}
    /\ (retry.hist # <<>> /\ retry.hist[1].status = 400)
          => (Len(retry.hist) = 1 /\ retry.pc = "thrown")

C10_Witness ==
    /\ retry.pc = "thrown"
    /\ Len(retry.hist) = 5
    /\ AllAttempts429

\* C27: withRetry makes attempts until the first success, the first failure
\* that is not retryable or the fifth attempt; only failures with status 429,
\* status 500 or above, or code ETIMEDOUT or ECONNRESET are followed by
\* another attempt; and the error thrown is the error of the last attempt.
C27_RetryPolicy ==
    LET n == Len(retry.hist)
        RetryableFailure(o) ==
            \/ o.status = 429 \/ o.status >= 500
            \/ o.code \in {"ETIMEDOUT", "ECONNRESET"}
    IN  /\ n <= 5
        /\ \A i \in 1..(n - 1) :
              retry.hist[i] # Success /\ RetryableFailure(retry.hist[i])
        /\ retry.pc \in {"call", "sleep"} =>
              /\ n < 5
              /\ n > 0 => retry.hist[n] # Success /\ RetryableFailure(retry.hist[n])
        /\ retry.pc = "returned" => retry.hist[n] = Success
        /\ retry.pc = "thrown" =>
              /\ retry.hist[n] # Success
              /\ n = 5 \/ ~RetryableFailure(retry.hist[n])
              /\ retry.lastError = <<retry.hist[n]>>

C27_Witness ==
    /\ retry.pc = "thrown"
    /\ Len(retry.hist) = 3
    /\ retry.hist[1].code = "ETIMEDOUT"
    /\ retry.hist[2].status = 500
    /\ retry.hist[3].status = 400
    /\ retry.lastError = <<retry.hist[3]>>

----------------------------------------------------------------------------
(* The chunker *)

\* the chunks in index order, each after the first without its first `overlap`
\* characters, one after the other
RECURSIVE Reassemble(_, _)
Reassemble(chunkSeq, overlap) ==
    IF chunkSeq = <<>> THEN <<>>
    ELSE LET n == Len(chunkSeq)
             last == chunkSeq[n].chunk_text
         IN  Reassemble(SubSeq(chunkSeq, 1, n - 1), overlap)
                \o (IF n = 1 THEN last ELSE SubSeq(last, overlap + 1, Len(last)))

\* C11: a second chunkText call with the same text and options returns the
\* same chunk sequence, and for a text with some non-whitespace character the
\* chunks, each after the first without its leading overlap characters, put
\* together in index order are exactly the whitespace-normalized text.
C11_ChunksReassembleToNormalizedInput ==
    /\ ck.pc = "repeated" => ck.again = ck.result
    /\ (ck.pc # "idle" /\ NormalizeContent(ck.input) # <<>>)
          => Reassemble(ck.result, OverlapOf(ck.options)) = NormalizeContent(ck.input)

\* C12: chunkText returns at least one chunk for every text, and for a text
\* that is empty or only whitespace exactly one chunk, with index 0, holding
\* the placeholder text.
C12_NeverZeroChunks ==
    ck.pc # "idle" =>
        /\ Len(ck.result) >= 1
        /\ (\A i \in DOMAIN ck.input : IsSpace(ck.input[i]))
              => /\ Len(ck.result) = 1
                 /\ ck.result[1].chunk_index = 0
                 /\ ck.result[1].chunk_text = Placeholder

C12_Witness ==
    /\ ck.pc = "returned"
    /\ Len(ck.input) = MaxLead + MaxGap
    /\ ck.result = <<MakeChunk(0, Placeholder)>>

\* C28: for a text that is not empty after normalization, with chunkSize
\* clamped to 300..2000 and overlap to 0..floor(chunkSize / 2), chunkText
\* returns chunks with the indices 0..n-1; chunk i is the trimmed window of
\* chunkSize characters that starts at i * (chunkSize - overlap); the last
\* window, and no window before it, reaches the end of the text, so n is 1
\* when the text is no longer than chunkSize; and each token_estimate is
\* max(1, ceil(length / 4)).
C28_ChunksAreTheSlidingWindows ==
    (ck.pc # "idle" /\ NormalizeContent(ck.input) # <<>>) =>
        LET text == NormalizeContent(ck.input)
            asked == IF "chunkSize" \in DOMAIN ck.options THEN ck.options.chunkSize ELSE 1050
            lap == IF "overlap" \in DOMAIN ck.options THEN ck.options.overlap ELSE 150
            chunkSize == IF asked < 300 THEN 300 ELSE IF asked > 2000 THEN 2000 ELSE asked
            overlap == IF lap < 0 THEN 0
                       ELSE IF lap > chunkSize \div 2 THEN chunkSize \div 2 ELSE lap
            step == chunkSize - overlap
            n == Len(ck.result)
        IN  /\ n >= 1
            /\ \A i \in 1..n :
                  LET window == SubSeq(text, (i - 1) * step + 1,
                                       Min2((i - 1) * step + chunkSize, Len(text)))
                      length == Len(ck.result[i].chunk_text)
                  IN  /\ ck.result[i].chunk_index = i - 1
                      /\ ck.result[i].chunk_text = Trim(window)
                      /\ ck.result[i].token_estimate =
                            (IF length = 0 THEN 1
                             ELSE IF length % 4 = 0 THEN length \div 4
                             ELSE length \div 4 + 1)
            /\ (n - 1) * step + chunkSize >= Len(text)
            /\ n >= 2 => (n - 2) * step + chunkSize < Len(text)
            /\ Len(text) <= chunkSize => n = 1

C28_Witness ==
    /\ ck.pc = "returned"
    /\ ck.options = [chunkSize |-> 100, overlap |-> 400]
    /\ Len(ck.result) = 3
    /\ ck.result[3].chunk_index = 2
    /\ Len(ck.result[1].chunk_text) < MIN_CHUNK_SIZE

----------------------------------------------------------------------------
(* The crawler's discovery *)

\* C19: the list discoverWebsiteUrls returns has no URL twice, has at most
\* min(max(maxPages, 1), 200) URLs, and every URL in it has the hostname of
\* the root URL.
C19_DiscoveryIsBoundedSameHostNoDuplicates ==
    dv.pc = "returned" =>
        /\ \A i, j \in DOMAIN dv.result :
              Href(dv.result[i]) = Href(dv.result[j]) => i = j
        /\ Len(dv.result) <= Min2(Max2(dv.maxPagesIn, 1), 200)
        /\ \A i \in DOMAIN dv.result : dv.result[i].host = dv.rootUrl[1].host

C19_Witness ==
    /\ dv.pc = "returned"
    /\ dv.maxPagesIn = 3
    /\ Len(dv.result) = 3
    /\ dv.visited # {}

\* C20: no URL of the list discoverWebsiteUrls returns has a path that
\* contains a blocked fragment or ends in a skipped extension, the root URL
\* included.
C20_NoBlockedUrlIsReturned ==
    dv.pc = "returned" =>
        \A i \in DOMAIN dv.result :
            /\ \A fragment \in blockedPathFragments :
                  ~Includes(dv.result[i].path, fragment)
            /\ \A extension \in skipExtensions :
                  ~EndsWith(ToLower(dv.result[i].path), extension)

\* C21: normalizeUrl returns null exactly for input that does not parse, and
\* otherwise a URL without query and fragment whose path ends in "/" only
\* when it is "/"; normalizing what it returned gives the same URL again.
C21_NormalizeUrlIsCanonicalAndIdempotent ==
    /\ nu.pc \in {"returned", "again"} =>
          /\ nu.out = NoUrl <=>
                (~nu.rawUrl.valid \/ (~nu.rawUrl.abs /\ nu.baseUrl = NoUrl))
          /\ nu.out # NoUrl =>
                /\ ~nu.out[1].search /\ ~nu.out[1].hash
                /\ EndsWith(nu.out[1].path, <<"/">>) => nu.out[1].path = <<"/">>
    /\ nu.pc = "again" => nu.again = nu.out

\* C22: a fetchAndExtractPage call that returns a page returns a text that
\* is not empty, and when the fetched text was empty the text returned is a
\* placeholder that contains the page's URL; an empty fetched text does not
\* make the call fail.
C22_ExtractionNeverReturnsEmptyText ==
    fx.pc = "settled" =>
        /\ fx.page.thrown <=> fx.fetched.kind = "throws"
        /\ ~fx.page.thrown =>
              /\ fx.page.contentText # <<>>
              /\ FetchWithJina(fx.fetched) = <<>> =>
                    /\ Includes(fx.page.contentText, fx.url)
                    /\ fx.page.contentText # fx.url

C22_Witness ==
    /\ fx.pc = "settled"
    /\ fx.fetched.kind = "string"
    /\ fx.fetched.data = <<>>
    /\ ~fx.page.thrown
    /\ Len(fx.page.contentText) > Len(fx.url)

----------------------------------------------------------------------------
(* The worker pool *)

\* the workers of run r that are processing a page
InFlight(r) == {w \in Workers : wk[r][w].pc = "page"}

\* C24: once cancel has set the flag of a run, no worker takes a URL from
\* the cursor; a page that was being processed when the flag was set is
\* finished and counted before the run ends canceled, and the pages that can
\* still finish are at most as many as there are workers.
C24_NoUrlIsTakenAfterCancel ==
    [][\A r \in DOMAIN jobs :
          jobs[r].cancelRequested =>
              /\ jobs'[r].cursor = jobs[r].cursor
              /\ jobs[r].cursor - jobs[r].pagesCrawled = Cardinality(InFlight(r))
              /\ jobs[r].cursor - jobs[r].pagesCrawled <= NumWorkers
              /\ \A w \in InFlight(r) :
                    \/ wk'[r][w] = wk[r][w]
                    \/ /\ wk'[r][w].pc = "write"
                       /\ jobs'[r].pagesCrawled = jobs[r].pagesCrawled + 1
              /\ jobs'[r].status = "canceled" =>
                    jobs'[r].pagesCrawled = jobs'[r].cursor]_vars

C24_Witness ==
    /\ 1 \in DOMAIN jobs
    /\ jobs[1].cancelRequested
    /\ InFlight(1) # {}
    /\ jobs[1].cursor < jobs[1].pagesFound

\* C25: a run goes from running to done or canceled, in the manager and in
\* its row, only when no worker is processing a page, and from then on no
\* page, no chunk and no counter of the run is written.
C25_FinalTransitionAfterDrain ==
    [][\A r \in DOMAIN jobs :
          /\ (jobs[r].status = "running" /\ jobs'[r].status \in {"done", "canceled"})
                => InFlight(r) = {}
          /\ (runs[r].status = "running" /\ runs'[r].status \in {"done", "canceled"})
                => InFlight(r) = {}
          /\ jobs[r].status \in {"done", "canceled"} =>
                /\ pages' = pages /\ chunks' = chunks
                /\ runs'[r].pages_found = runs[r].pages_found
                /\ runs'[r].pages_crawled = runs[r].pages_crawled
                /\ runs'[r].chunks_written = runs[r].chunks_written
                /\ jobs'[r].pagesFound = jobs[r].pagesFound
                /\ jobs'[r].pagesCrawled = jobs[r].pagesCrawled
                /\ jobs'[r].chunksWritten = jobs[r].chunksWritten]_vars

C25_Witness ==
    /\ 1 \in DOMAIN jobs
    /\ jobs[1].status = "done"
    /\ runs[1].status = "done"
    /\ jobs[1].pagesCrawled = MaxUrls
    /\ chunks # {}

\* the URLs the workers of run r have taken: those processed, in the order
\* they were finished, and those in flight
TakenUrls(r) ==
    [i \in DOMAIN jobs[r].log |-> jobs[r].log[i][1]]

\* C26: no URL of a run is taken by two workers, in a run that ends done
\* every discovered URL has been taken exactly once, and the pages in flight
\* are never more than the workers.
C26_EachUrlTakenOnce ==
    \A r \in DOMAIN jobs :
        /\ \A i, j \in DOMAIN TakenUrls(r) : TakenUrls(r)[i] = TakenUrls(r)[j] => i = j
        /\ \A v, w \in InFlight(r) : wk[r][v].url = wk[r][w].url => v = w
        /\ \A w \in InFlight(r) : wk[r][w].url \notin Range(TakenUrls(r))
        /\ Cardinality(InFlight(r)) <= NumWorkers
        /\ jobs[r].status = "done" =>
              /\ Range(TakenUrls(r)) = 1..jobs[r].pagesFound
              /\ Len(TakenUrls(r)) = jobs[r].pagesFound

C26_Witness ==
    /\ 1 \in DOMAIN jobs
    /\ jobs[1].status = "done"
    /\ jobs[1].pagesFound = MaxUrls
    /\ TakenUrls(1) = <<2, 1>>

----------------------------------------------------------------------------
(* The browser *)

\* C29: whatever the order of the render requests, the browser is launched
\* at most once, every request that gets a browser gets the browser of that
\* one launch, and after a failed launch every request ends with null, none
\* with an exception.
C29_BrowserIsLaunchedOnce ==
    br.pc = "loaded" =>
        /\ br.launches <= 1
        /\ \A c \in Callers :
              br.callers[c].got # NoBrowser =>
                  /\ br.promise = [state |-> "settled", value |-> br.callers[c].got]
                  /\ \A d \in Callers :
                        br.callers[d].got \in {NoBrowser, br.callers[c].got}
        /\ (br.promise = [state |-> "settled", value |-> NoBrowser]) =>
              \A c \in Callers :
                  /\ br.callers[c].pc # "page"
                  /\ br.callers[c].pc = "returned" => br.callers[c].result = "null"

C29_Witness ==
    /\ br.pc = "loaded"
    /\ br.launches = 1
    /\ br.promise.state = "settled"
    /\ br.promise.value # NoBrowser
    /\ \A c \in Callers : br.callers[c].pc = "page" /\ br.callers[c].got = br.promise.value
    /\ br.callers[1].renders = MaxRenders

====
